---- MODULE Spec2Model ----
(***************************************************************************)
(* The document-index (Elasticsearch) database backend of the reporting    *)
(* indexer: the Block index, the Meta/lastPersisted sentinel, the Contract *)
(* index with its per-address lastFiltered, and the bulk indexer that      *)
(* carries the lastFiltered updates.                                       *)
(*                                                                         *)
(* An index is a map from document id to document.  A request either       *)
(* reaches the store or fails in transit; the failing request of a call is *)
(* an input of the action.                                                 *)
(*                                                                         *)
(* uint64 arithmetic is done modulo UintMod.  TLC's integers are 32 bits   *)
(* wide, so the modulus is 2^UintBits with UintBits < 31; every block      *)
(* number of the model is far below it, and the one wrap-around of the     *)
(* code (from - 1 at from = 0) lands on the largest value, as it does at   *)
(* 64 bits.                                                                *)
(***************************************************************************)
EXTENDS Integers, Sequences, FiniteSets, TLC

\* ------------------------------------------------------------- bounds
MaxBlock == 3
MaxBatch == 2
MaxIndexed == 2
MaxPending == 2
UintBits == 16
MaxHeld == 3
IntBits == 12
MaxHead == 2
MaxStale == 1
MaxFails == 2
MaxHexLen == 2
MaxNameLen == 4
MaxLen == 3
MaxTxs == 2
MaxCalls == 2
MaxWorkers == 2
MaxRetries == 2
MaxDigit == 2
MaxTrace == 2

UintMod == 2^UintBits
MaxUint == UintMod - 1

\* Go's int, two's complement: a result outside the range wraps around.
IntMod == 2^IntBits
MaxInt == 2^(IntBits - 1) - 1
WrapInt(x) == ((x + MaxInt + 1) % IntMod) - (MaxInt + 1)

BlockNums == 0..MaxBlock

Addrs == {"a1", "a2"}
Holders == {"h1", "h2"}
HeldBlocks == 0..MaxHeld

\* ------------------------------------------------------------- state
VARIABLES
    blocks,        \* Block index: the set of document ids (block numbers) stored
    meta,          \* Meta index: document id -> lastPersisted value
    missingIndex,  \* TRUE while an index that init() creates does not exist
    contracts,     \* Contract index: address -> Contract document
    pending,       \* items queued in the Contract bulk indexer, not yet flushed
    mem,           \* the in-memory backend: addresses, lastFiltered, indexHistory
    tokens,        \* Token index: the ERC-721 records of one (contract, tokenId)
    data,          \* State, Storage and Event indices: what was indexed per address
    mon,           \* MonitorService: the supervisor, its listener and its backfill
    lastOp,        \* the last call: its name, arguments, returned error, pre-state
    s6Obs,         \* watermarks read after each write of the S6 scenario
    calls,         \* WriteBlock calls in progress: where each goroutine stands
    svc            \* MonitorService: its long-lived goroutines and the stop feed

vars ==
    <<blocks, meta, missingIndex, contracts, pending, mem, tokens, data, mon, lastOp,
      s6Obs, calls, svc>>

\* ------------------------------------------------------------- errors
Nil == "nil"
ErrNotFound == "ErrNotFound"
ErrConflict == "version_conflict"
ErrTransient == "transient"
ErrPaginationLimitExceeded == "pagination limit exceeded"

\* No request of the call fails in transit.
NoFault == [at |-> "none"]

\* ------------------------------------------------------------- documents
EmptyIndex == [id \in {} |-> 0]

\* IndexRequest without OpType: create or overwrite.
IndexDoc(index, id, doc) == [i \in DOMAIN index \cup {id} |-> IF i = id THEN doc ELSE index[i]]

\* IndexRequest with OpType "create": only creates, an existing document stays.
CreateDoc(index, id, doc) == IF id \in DOMAIN index THEN index ELSE IndexDoc(index, id, doc)

\* ------------------------------------------------------------- BlockDB reads
ReadBlock(stored, number) == number \in stored

GetLastPersistedBlockNumber(m) ==
    IF "lastPersisted" \in DOMAIN m
    THEN [val |-> m["lastPersisted"], err |-> Nil]
    ELSE [val |-> 0, err |-> ErrNotFound]

\* The probing loop of updateLastPersisted: advance while the next block reads
\* back.  A failed read counts as an absent block (its error is dropped), readFailAt
\* is the block number whose read fails (0: none fails).
RECURSIVE ProbeOffByOne(_, _, _)
ProbeOffByOne(stored, blockNumber, readFailAt) ==
    IF ReadBlock(stored, blockNumber) /\ blockNumber # readFailAt
    THEN ProbeOffByOne(stored, blockNumber + 1, readFailAt)
    ELSE blockNumber

ProbeNoLoop(stored, blockNumber, readFailAt) == blockNumber

RECURSIVE Probe(_, _, _)
Probe(stored, blockNumber, readFailAt) ==
    IF ReadBlock(stored, blockNumber + 1) /\ blockNumber + 1 # readFailAt
    THEN Probe(stored, blockNumber + 1, readFailAt)
    ELSE blockNumber

\* updateLastPersisted(startingBlockNumber) on the Block index `stored` and the
\* Meta index m; fail names the request that fails in transit.  The result is the
\* Meta index afterwards and the returned error.
updateLastPersistedUnconditional(stored, m, startingBlockNumber, fault) ==
    LET got == IF fault.at = "get" THEN [val |-> 0, err |-> ErrTransient]
               ELSE GetLastPersistedBlockNumber(m)
    IN  IF got.err # Nil THEN [meta |-> m, err |-> got.err]
        ELSE IF fault.at = "put" THEN [meta |-> m, err |-> ErrTransient]
        ELSE [meta |-> IndexDoc(m, "lastPersisted",
                                Probe(stored, startingBlockNumber,
                                      IF fault.at = "read" THEN fault.n ELSE 0)),
              err |-> Nil]

updateLastPersisted(stored, m, startingBlockNumber, fault) ==
    LET fail == fault.at
        readFailAt == IF fault.at = "read" THEN fault.n ELSE 0
        got == IF fail = "get" THEN [val |-> 0, err |-> ErrTransient]
               ELSE GetLastPersistedBlockNumber(m)
    IN  IF got.err # Nil THEN [meta |-> m, err |-> got.err]
        ELSE IF startingBlockNumber = (got.val + 1) % UintMod
        THEN IF fail = "put" THEN [meta |-> m, err |-> ErrTransient]
             ELSE [meta |-> IndexDoc(m, "lastPersisted",
                                     Probe(stored, startingBlockNumber, readFailAt)),
                   err |-> Nil]
        ELSE [meta |-> m, err |-> Nil]

\* The watermark a caller reads, and the largest gap-free prefix 1..n stored.
LastPersisted == GetLastPersistedBlockNumber(meta).val
GapFreePrefix(stored) ==
    CHOOSE n \in 0..Cardinality(stored) :
        (\A k \in 1..n : k \in stored) /\ (n + 1) \notin stored
Tight(stored, m) == GetLastPersistedBlockNumber(m).val = GapFreePrefix(stored)

PreBlocks == [lp |-> LastPersisted, tight |-> Tight(blocks, meta)]

\* ------------------------------------------------------------- S6 observer
S6Order == <<3, 1, 2, 5, 4>>

S6Off == [on |-> FALSE, seen |-> <<>>]

S6Step(b, clean, lpAfter) ==
    IF s6Obs.on /\ clean /\ Len(s6Obs.seen) < Len(S6Order)
       /\ b = S6Order[Len(s6Obs.seen) + 1]
    THEN [on |-> TRUE, seen |-> Append(s6Obs.seen, lpAfter)]
    ELSE S6Off

\* ------------------------------------------------------------- New / init
checkIsInitialized == ~missingIndex /\ blocks # {}

\* init(): every request's error is dropped.  created: the index creations went
\* through; sentinelOk: the create of Meta/lastPersisted reached the store.
initOverwrites(m, created, sentinelOk) ==
    [missingIndex |-> missingIndex /\ ~created,
     meta |-> IF sentinelOk THEN IndexDoc(m, "lastPersisted", 0) ELSE m]

init(m, created, sentinelOk) ==
    [missingIndex |-> missingIndex /\ ~created,
     meta |-> IF sentinelOk THEN CreateDoc(m, "lastPersisted", 0) ELSE m]

New(catFails, created, sentinelOk) ==
    /\ IF catFails \/ checkIsInitialized
       THEN UNCHANGED <<meta, missingIndex>>
       ELSE /\ meta' = init(meta, created, sentinelOk).meta
            /\ missingIndex' = init(meta, created, sentinelOk).missingIndex
    /\ lastOp' = [op |-> "New",
                  args |-> IF catFails \/ checkIsInitialized THEN <<>> ELSE <<"init">>,
                  err |-> IF catFails THEN ErrTransient ELSE Nil, pre |-> PreBlocks]
    /\ s6Obs' = S6Off
    /\ UNCHANGED <<blocks, contracts, pending, mem, tokens, mon, data, calls, svc>>

\* ------------------------------------------------------------- WriteBlock
\* The effect of WriteBlock(block) on (Block index, Meta index).
WriteBlockResult(stored, m, number, fault) ==
    IF fault.at = "index" THEN [blocks |-> stored, meta |-> m, err |-> ErrTransient]
    ELSE LET written == stored \cup {number}
             upd == updateLastPersisted(written, m, number, fault)
         IN  [blocks |-> written, meta |-> upd.meta, err |-> upd.err]

WriteBlock(number, fault) ==
    LET r == WriteBlockResult(blocks, meta, number, fault)
    IN  /\ blocks' = r.blocks
        /\ meta' = r.meta
        /\ lastOp' = [op |-> "WriteBlock", args |-> <<number>>, err |-> r.err,
                      pre |-> PreBlocks]
        /\ s6Obs' = S6Step(number, fault.at = "none",
                           GetLastPersistedBlockNumber(r.meta).val)
        /\ UNCHANGED <<missingIndex, contracts, pending, mem, tokens, mon, data, calls, svc>>

\* ------------------------------------------------------------- WriteBlocks
Min(S) == CHOOSE x \in S : \A y \in S : x <= y
Max(S) == CHOOSE x \in S : \A y \in S : x >= y
Range(seq) == {seq[i] : i \in DOMAIN seq}

\* Item i of a bulk "create" is stored unless it fails in transit (fault.item) or
\* its document id exists already: in the index, or created by an earlier item.
BulkCreated(stored, batch, fault) ==
    {i \in DOMAIN batch :
        /\ ~(fault.at = "item" /\ i = fault.item)
        /\ batch[i] \notin stored
        /\ ~\E j \in 1..(i - 1) : batch[j] = batch[i]
                                  /\ ~(fault.at = "item" /\ j = fault.item)}

\* The loop "find lowest block number".
Lowest(batch) == Min(Range(batch))

\* The effect of WriteBlocks(blocks) on (Block index, Meta index).
WriteBlocksResult(stored, m, batch, fault) ==
    IF Len(batch) = 0 THEN [blocks |-> stored, meta |-> m, err |-> Nil]
    ELSE IF Len(batch) = 1 THEN WriteBlockResult(stored, m, batch[1], fault)
    ELSE LET created == BulkCreated(stored, batch, fault)
             written == stored \cup {batch[i] : i \in created}
             returnErr == IF created = DOMAIN batch THEN Nil
                          ELSE IF fault.at = "item" THEN ErrTransient ELSE ErrConflict
         IN  IF returnErr # Nil THEN [blocks |-> written, meta |-> m, err |-> returnErr]
             ELSE LET upd == updateLastPersisted(written, m, Lowest(batch), fault)
                  IN  [blocks |-> written, meta |-> upd.meta, err |-> upd.err]

WriteBlocks(batch, fault) ==
    LET r == WriteBlocksResult(blocks, meta, batch, fault)
    IN  /\ blocks' = r.blocks
        /\ meta' = r.meta
        /\ lastOp' = [op |-> "WriteBlocks", args |-> <<Range(batch)>>, err |-> r.err,
                      pre |-> PreBlocks]
        /\ s6Obs' = S6Off
        /\ UNCHANGED <<missingIndex, contracts, pending, mem, tokens, mon, data, calls, svc>>

\* ------------------------------------------------------------- AddressDB
Contract(address, lastFiltered) ==
    [address |-> address, templateName |-> address, creationTx |-> "",
     lastFiltered |-> lastFiltered]

getContractByAddress(index, address) ==
    IF address \in DOMAIN index
    THEN [found |-> TRUE, doc |-> index[address], err |-> Nil]
    ELSE [found |-> FALSE, doc |-> Contract(address, 0), err |-> ErrNotFound]

GetLastFiltered(index, address) ==
    LET got == getContractByAddress(index, address)
    IN  IF got.err # Nil THEN [val |-> 0, err |-> got.err]
        ELSE [val |-> got.doc.lastFiltered, err |-> Nil]

\* GetAddresses: the address field of every document of the Contract index, as a
\* bag (address -> number of documents carrying it).
GetAddresses(index) ==
    [a \in {index[id].address : id \in DOMAIN index} |->
        Cardinality({id \in DOMAIN index : index[id].address = a})]

\* LastFiltered: from - 1, in uint64.
StartBefore(from) == (from - 1) % UintMod

\* Pre-state of a call on one address: what GetLastFiltered returned before it.
PreAddress(address) == [lf |-> GetLastFiltered(contracts, address)]

\* Pre-state of an addition: whether it follows the successful deletion of the same
\* address, and the lastFiltered that address had before the deletion.
PreAdd(addresses, deleteOp) ==
    LET follows == /\ Len(addresses) = 1
                   /\ lastOp.op = deleteOp /\ lastOp.err = Nil
                   /\ lastOp.args = addresses
    IN  [afterDelete |-> follows,
         prior |-> IF follows THEN lastOp.pre.lf.val ELSE 0]

CreateContractOverwrites(index, address, lastFiltered, failed) ==
    IF failed THEN [index |-> index, err |-> ErrTransient]
    ELSE [index |-> IndexDoc(index, address, Contract(address, lastFiltered)), err |-> Nil]

\* A "create" of one Contract document: the index afterwards and the error.
CreateContract(index, address, lastFiltered, failed) ==
    IF failed THEN [index |-> index, err |-> ErrTransient]
    ELSE IF address \in DOMAIN index THEN [index |-> index, err |-> ErrConflict]
    ELSE [index |-> CreateDoc(index, address, Contract(address, lastFiltered)), err |-> Nil]

\* The bulk branch of AddAddresses: the items are created in order, returnErr keeps
\* the error of the last item that failed.
RECURSIVE AddAddressesBulk(_, _, _, _, _)
AddAddressesBulk(index, addresses, i, fault, returnErr) ==
    IF i > Len(addresses) THEN [index |-> index, err |-> returnErr]
    ELSE LET r == CreateContract(index, addresses[i], 0,
                                 fault.at = "item" /\ fault.item = i)
         IN  AddAddressesBulk(r.index, addresses, i + 1, fault,
                              IF r.err # Nil THEN r.err ELSE returnErr)

AddAddressesResultWraps(index, addresses, fault) ==
    IF Len(addresses) = 0 THEN [index |-> index, err |-> Nil]
    ELSE IF Len(addresses) > 1 THEN AddAddressesBulk(index, addresses, 1, fault, Nil)
    ELSE CreateContract(index, addresses[1], StartBefore(0), fault.at = "index")

AddAddressesResult(index, addresses, fault) ==
    IF Len(addresses) = 0 THEN [index |-> index, err |-> Nil]
    ELSE IF Len(addresses) > 1 THEN AddAddressesBulk(index, addresses, 1, fault, Nil)
    ELSE CreateContract(index, addresses[1], 0, fault.at = "index")

AddAddresses(addresses, fault) ==
    LET r == AddAddressesResult(contracts, addresses, fault)
    IN  /\ contracts' = r.index
        /\ lastOp' = [op |-> "AddAddresses", args |-> addresses, err |-> r.err,
                      pre |-> PreAdd(addresses, "DeleteAddress")]
        /\ s6Obs' = S6Off
        /\ UNCHANGED <<blocks, meta, missingIndex, pending, mem, tokens, mon, data, calls, svc>>

AddAddressFrom(address, from, fault) ==
    LET r == CreateContract(contracts, address, StartBefore(from), fault.at = "index")
    IN  /\ contracts' = r.index
        /\ lastOp' = [op |-> "AddAddressFrom", args |-> <<address, from>>, err |-> r.err,
                      pre |-> PreAddress(address)]
        /\ s6Obs' = S6Off
        /\ UNCHANGED <<blocks, meta, missingIndex, pending, mem, tokens, mon, data, calls, svc>>

DeleteDoc(index, id) == [i \in DOMAIN index \ {id} |-> index[i]]

DeleteAddressResult(index, address, fault) ==
    IF fault.at = "index" THEN [index |-> index, err |-> ErrTransient]
    ELSE IF address \notin DOMAIN index THEN [index |-> index, err |-> ErrNotFound]
    ELSE [index |-> DeleteDoc(index, address), err |-> Nil]

DeleteAddress(address, fault) ==
    LET r == DeleteAddressResult(contracts, address, fault)
    IN  /\ contracts' = r.index
        /\ lastOp' = [op |-> "DeleteAddress", args |-> <<address>>, err |-> r.err,
                      pre |-> PreAddress(address)]
        /\ s6Obs' = S6Off
        /\ UNCHANGED <<blocks, meta, missingIndex, pending, mem, tokens, mon, data, calls, svc>>

\* updateContract(address, "templateName", name): the document is read first, and
\* the update is sent only if it is there.
updateContract(index, address, name, fault) ==
    IF fault.at = "get" THEN [index |-> index, err |-> ErrTransient]
    ELSE IF getContractByAddress(index, address).err # Nil
         THEN [index |-> index, err |-> getContractByAddress(index, address).err]
    ELSE IF fault.at = "index" THEN [index |-> index, err |-> ErrTransient]
    ELSE [index |-> [index EXCEPT ![address].templateName = name], err |-> Nil]

AssignTemplate(address, name, fault) ==
    LET r == updateContract(contracts, address, name, fault)
    IN  /\ contracts' = r.index
        /\ lastOp' = [op |-> "AssignTemplate", args |-> <<address, name>>,
                      err |-> r.err, pre |-> <<>>]
        /\ s6Obs' = S6Off
        /\ UNCHANGED <<blocks, meta, missingIndex, pending, mem, tokens, mon, data, calls, svc>>

\* ------------------------------------------------------------- IndexDB
\* updateAllLastFiltered: one "update" item per address is handed to the Contract
\* bulk indexer; nothing waits for the items and no failure is reported.
updateAllLastFiltered(queued, addresses, lastFiltered) ==
    queued \cup {[id |-> addresses[i], lastFiltered |-> lastFiltered] : i \in DOMAIN addresses}

\* IndexBlocks(addresses, blocks), blocks not empty.  indexed: the block indexer's
\* Index() returned nil.
IndexBlocksResult(queued, addresses, blks, indexed) ==
    IF ~indexed THEN [pending |-> queued, err |-> ErrTransient]
    ELSE [pending |-> updateAllLastFiltered(queued, addresses, blks[Len(blks)]),
          err |-> Nil]

IndexBlocks(addresses, blks, indexed) ==
    LET r == IndexBlocksResult(pending, addresses, blks, indexed)
    IN  /\ Cardinality(r.pending) <= MaxPending
        /\ pending' = r.pending
        /\ lastOp' = [op |-> "IndexBlocks",
                      args |-> <<addresses, blks[Len(blks)], Max(Range(blks))>>,
                      err |-> r.err, pre |-> <<>>]
        /\ s6Obs' = S6Off
        /\ UNCHANGED <<blocks, meta, missingIndex, contracts, mem, tokens, mon, data, calls, svc>>

\* The bulk indexer sends a queued "update": it changes the document if there is
\* one, and is dropped if there is none.
ApplyUpdate(index, item) ==
    IF item.id \in DOMAIN index
    THEN [index EXCEPT ![item.id].lastFiltered = item.lastFiltered]
    ELSE index

Flush(item) ==
    /\ item \in pending
    /\ contracts' = ApplyUpdate(contracts, item)
    /\ pending' = pending \ {item}
    /\ lastOp' = [op |-> "Flush",
                  args |-> IF (lastOp.op = "IndexBlocks" /\ lastOp.err = Nil)
                              \/ lastOp.op = "Flush"
                           THEN lastOp.args ELSE <<>>,
                  err |-> Nil, pre |-> <<>>]
    /\ s6Obs' = S6Off
    /\ UNCHANGED <<blocks, meta, missingIndex, mem, tokens, mon, data, calls, svc>>

\* ------------------------------------------------------------- indexed data
\* IndexStorage for one account: a State document address-blockNumber holding the
\* storage root, and a Storage document per root holding the slots; both are
\* bulk "create" items, the call waits for them.
StorageRoots == {"r0", "r1"}
StorageMap(root) == IF root = "r0" THEN {} ELSE {"slot0"}

BulkCreate(index, id, doc, failed) ==
    IF failed \/ id \in DOMAIN index THEN index ELSE CreateDoc(index, id, doc)

\* What OnFailure gets for a bulk "create" item: nothing (the item succeeded), the
\* transport error, or the rejection of a document id that exists.
BulkCreateErr(index, id, failed) ==
    IF failed THEN ErrTransient
    ELSE IF id \in DOMAIN index THEN ErrConflict ELSE Nil

\* returnErr after the State item and the Storage item of one account: the error
\* of the last item that failed.
IndexStorageErr(d, address, blockNumber, root, fault) ==
    LET stateErr == BulkCreateErr(d.state, <<address, blockNumber>>, fault.at = "item")
        storageErr == BulkCreateErr(d.storage, root, fault.at = "index")
    IN  IF storageErr # Nil THEN storageErr ELSE stateErr

IndexStorage(address, blockNumber, root, fault) ==
    /\ data' = [data EXCEPT
                   !.state = BulkCreate(@, <<address, blockNumber>>,
                                        [storageRoot |-> root], fault.at = "item"),
                   !.storage = BulkCreate(@, root, StorageMap(root), fault.at = "index")]
    /\ lastOp' = [op |-> "IndexStorage", args |-> <<address, blockNumber, root>>,
                  err |-> IndexStorageErr(data, address, blockNumber, root, fault),
                  pre |-> [stored |-> root \in DOMAIN data.storage,
                           indexed |-> <<address, blockNumber>> \in DOMAIN data.state,
                           clean |-> fault.at = "none"]]
    /\ s6Obs' = S6Off
    /\ UNCHANGED <<blocks, meta, missingIndex, contracts, pending, mem, tokens, mon, calls, svc>>

\* GetStorage: the State document of (address, blockNumber), then the Storage
\* document of its root; nil if either is missing.
GetStorage(d, address, blockNumber) ==
    IF <<address, blockNumber>> \notin DOMAIN d.state THEN {}
    ELSE IF d.state[<<address, blockNumber>>].storageRoot \notin DOMAIN d.storage THEN {}
    ELSE d.storage[d.state[<<address, blockNumber>>].storageRoot]

\* createEvents: one "create" item per event, document id blockNumber-index.
createEvents(address, blockNumber, fault) ==
    /\ data' = [data EXCEPT
                   !.events = BulkCreate(@, <<blockNumber, 0>>, [address |-> address],
                                         fault.at = "item")]
    /\ lastOp' = [op |-> "createEvents", args |-> <<address, blockNumber>>,
                  err |-> BulkCreateErr(data.events, <<blockNumber, 0>>, fault.at = "item"),
                  pre |-> <<>>]
    /\ s6Obs' = S6Off
    /\ UNCHANGED <<blocks, meta, missingIndex, contracts, pending, mem, tokens, mon, calls, svc>>

\* GetAllEventsFromAddress: the documents of the Event index with that address.
GetAllEventsFromAddress(d, address) ==
    {id \in DOMAIN d.events : d.events[id].address = address}

\* ------------------------------------------------------------- TokenDB
\* The ERC-721 records of one contract and one token id; the document id is
\* contract-tokenId-heldFrom, here heldFrom.  heldUntil = NullUntil: still held.
NullUntil == -1
ERC721Token(holder, heldFrom) ==
    [holder |-> holder, heldFrom |-> heldFrom, heldUntil |-> NullUntil]

Holds(doc, block) ==
    doc.heldFrom <= block /\ (doc.heldUntil = NullUntil \/ doc.heldUntil >= block)

\* The documents QueryERC721TokenAtBlock may put first for a block: a record whose
\* interval holds the block, or the latest record that starts at or before it.
ERC721Hits(index, block) ==
    LET docs == {index[id] : id \in DOMAIN index}
        started == {d \in docs : d.heldFrom <= block}
    IN  {d \in docs : Holds(d, block)}
            \cup {d \in started : \A e \in started : e.heldFrom <= d.heldFrom}

\* ERC721TokenByTokenID: the results the search may give ([doc, err]).
ERC721TokenByTokenID(index, block, failed) ==
    IF failed THEN {[doc |-> ERC721Token("", 0), err |-> ErrTransient]}
    ELSE IF ERC721Hits(index, block) = {}
         THEN {[doc |-> ERC721Token("", 0), err |-> ErrNotFound]}
    ELSE {[doc |-> d, err |-> Nil] : d \in ERC721Hits(index, block)}

RecordNoClose(index, holder, block, existing, fault) ==
    IF existing.err # Nil /\ existing.err # ErrNotFound
    THEN [index |-> index, err |-> existing.err]
    ELSE IF fault.at = "index" THEN [index |-> index, err |-> ErrTransient]
    ELSE IF block \in DOMAIN index THEN [index |-> index, err |-> ErrConflict]
    ELSE [index |-> CreateDoc(index, block, ERC721Token(holder, block)), err |-> Nil]

\* RecordERC721Token(contract, holder, block, tokenId), existing: what the search
\* for the entry at block - 1 gave.
RecordERC721TokenResult(index, holder, block, existing, fault) ==
    IF existing.err # Nil /\ existing.err # ErrNotFound
    THEN [index |-> index, err |-> existing.err]
    ELSE IF fault.at = "index" THEN [index |-> index, err |-> ErrTransient]
    ELSE IF block \in DOMAIN index THEN [index |-> index, err |-> ErrConflict]
    ELSE LET created == CreateDoc(index, block, ERC721Token(holder, block))
         IN  IF existing.err = ErrNotFound THEN [index |-> created, err |-> Nil]
             ELSE IF fault.at = "put" THEN [index |-> created, err |-> ErrTransient]
             ELSE [index |-> [created EXCEPT ![existing.doc.heldFrom].heldUntil =
                                                 (block - 1) % UintMod],
                   err |-> Nil]

\* The stored records form a history: one open record, and every other record
\* ends right before the next one starts.
ValidHistory(index) ==
    LET docs == {index[id] : id \in DOMAIN index}
        open == {d \in docs : d.heldUntil = NullUntil}
    IN  /\ Cardinality(open) = 1
        /\ \A d \in docs \ open :
               /\ d.heldUntil >= d.heldFrom
               /\ d.heldUntil + 1 \in DOMAIN index
               /\ \A e \in docs : e.heldFrom > d.heldFrom => e.heldFrom > d.heldUntil
        /\ \A d \in open : \A e \in docs : e.heldFrom <= d.heldFrom

\* Pre-state of a recording: the open record, when the records form a history.
\* The history of calls keeps the arguments and the pre-state of the recordings
\* that returned nil.
NoHistory == [valid |-> FALSE, m |-> 0, holder |-> ""]
PreToken ==
    IF ValidHistory(tokens)
    THEN LET open == CHOOSE d \in {tokens[id] : id \in DOMAIN tokens} :
                         d.heldUntil = NullUntil
         IN  [valid |-> TRUE, m |-> open.heldFrom, holder |-> open.holder]
    ELSE NoHistory

RecordERC721Token(holder, block, existing, fault) ==
    LET r == RecordERC721TokenResult(tokens, holder, block, existing, fault)
    IN  /\ existing \in ERC721TokenByTokenID(tokens, (block - 1) % UintMod,
                                              fault.at = "get")
        /\ tokens' = r.index
        /\ lastOp' = [op |-> "RecordERC721Token",
                      args |-> IF r.err = Nil THEN <<holder, block>> ELSE <<>>,
                      err |-> r.err,
                      pre |-> IF r.err = Nil THEN PreToken ELSE NoHistory]
        /\ s6Obs' = S6Off
        /\ UNCHANGED <<blocks, meta, missingIndex, contracts, pending, mem, mon, data, calls, svc>>

\* ------------------------------------------------------------- token sort key
\* RecordERC721Token splits fmt.Sprintf("%085d", tokenId) into five pieces of 17
\* characters and parses each with strconv.ParseUint(piece, 10, 64).  A number is
\* its decimal digits, most significant first, without leading zeros.
PadWidth == 85
SegmentDigits == 17
Segments == 5

Zeros(n) == [i \in 1..n |-> 0]

\* x < y and x <= y for numbers given by their digits.
NumLess(x, y) ==
    \/ Len(x) < Len(y)
    \/ /\ Len(x) = Len(y)
       /\ \E i \in 1..Len(x) : x[i] < y[i] /\ \A j \in 1..(i - 1) : x[j] = y[j]

\* The largest uint64 and the largest token id, 2^256 - 1.
MaxUint64 ==
    <<1, 8, 4, 4, 6, 7, 4, 4, 0, 7, 3, 7, 0, 9, 5, 5, 1, 6, 1, 5>>
MaxTokenId ==
    <<1, 1, 5, 7, 9, 2, 0, 8, 9, 2, 3, 7, 3, 1, 6, 1, 9, 5, 4, 2, 3, 5, 7, 0, 9, 8,
    5, 0, 0, 8, 6, 8, 7, 9, 0, 7, 8, 5, 3, 2, 6, 9, 9, 8, 4, 6, 6, 5, 6, 4, 0, 5,
    6, 4, 0, 3, 9, 4, 5, 7, 5, 8, 4, 0, 0, 7, 9, 1, 3, 1, 2, 9, 6, 3, 9, 9, 3, 5>>

\* fmt.Sprintf("%085d", tokenId) for a token id >= 0: zeros in front up to the
\* width, nothing cut off beyond it.
PadRight(tokenId) ==
    IF Len(tokenId) >= PadWidth THEN tokenId
    ELSE tokenId \o Zeros(PadWidth - Len(tokenId))

Sprintf085d(tokenId) ==
    IF Len(tokenId) >= PadWidth THEN tokenId
    ELSE Zeros(PadWidth - Len(tokenId)) \o tokenId

\* The number a string of digits denotes: leading zeros dropped.
RECURSIVE Canonical(_)
Canonical(digits) ==
    IF Len(digits) <= 1 THEN digits
    ELSE IF digits[1] = 0 THEN Canonical(Tail(digits)) ELSE digits

\* strconv.ParseUint(s, 10, 64) with its error dropped: the value, or the largest
\* uint64 when the value is out of range.
ParseUint64(digits) ==
    LET n == Canonical(digits)
    IN  IF NumLess(MaxUint64, n) THEN MaxUint64 ELSE n

\* first, second, third, fourth, fifth.
SortKey(tokenId) ==
    LET paddedTokenId == Sprintf085d(tokenId)
    IN  [i \in 1..Segments |->
            ParseUint64(SubSeq(paddedTokenId, SegmentDigits * (i - 1) + 1,
                               SegmentDigits * i))]

\* Tuples compared segment by segment, first segment first.
KeyLess(k1, k2) ==
    \E i \in 1..Segments : NumLess(k1[i], k2[i]) /\ \A j \in 1..(i - 1) : k1[j] = k2[j]

\* The part of RecordERC721Token that computes the sort key of tokenId.
RecordSortKey(tokenId) ==
    /\ lastOp' = [op |-> "SortKey", args |-> <<tokenId>>, err |-> Nil,
                  pre |-> [key |-> SortKey(tokenId)]]
    /\ s6Obs' = S6Off
    /\ UNCHANGED <<blocks, meta, missingIndex, contracts, pending, mem, tokens, mon, data,
                   calls, svc>>

\* ------------------------------------------------------------- paginated searches
PaginationLimit == 1000

\* from := options.PageSize * options.PageNumber
PageFrom(pageSize, pageNumber) == WrapInt(pageSize * pageNumber)

\* The head of every paginated search: the limit check, then the search request.
PaginatedSearch(pageSize, pageNumber, failed) ==
    IF WrapInt(PageFrom(pageSize, pageNumber) + pageSize) > PaginationLimit
    THEN [sent |-> FALSE, err |-> ErrPaginationLimitExceeded]
    ELSE [sent |-> TRUE, err |-> IF failed THEN ErrTransient ELSE Nil]

Search(api, pageSize, pageNumber, failed) ==
    LET r == PaginatedSearch(pageSize, pageNumber, failed)
    IN  /\ lastOp' = [op |-> api, args |-> <<pageSize, pageNumber>>, err |-> r.err,
                      pre |-> [sent |-> r.sent]]
        /\ s6Obs' = S6Off
        /\ UNCHANGED <<blocks, meta, missingIndex, contracts, pending, mem, tokens, mon, data, calls, svc>>

\* ------------------------------------------------------------- MonitorService
\* run(): pc is the supervisor's position in the loop; read holds what the last
\* syncHistoricBlocks read from the node and the database; orphans counts the
\* backfill goroutines of earlier iterations that are still running; fails counts the failed
\* SubscribeNewHead calls since the last reconnect (up to MaxFails); retries counts
\* the syncBlocks calls that returned an error (up to MaxRetries).
\*   "loop"            top of the loop, about to call listenToChainHead
\*   "sync"            listener started, about to call syncHistoricBlocks
\*   "select"          waiting on stopChan and cancelChan
\*   "stopWaitCancel"  stop received, chStopChan closed, waiting on cancelChan
\*   "stopWaitGroup"   stop received, in wg.Wait()
\*   "cancelWaitGroup" cancelChan closed, in wg.Wait()
\*   "sleep"           time.Sleep(time.Second) before the next iteration
\*   "stopped"         run() has returned
NoBackfill == [state |-> "none", next |-> 0, to |-> 0]

MonitorInit ==
    [pc |-> "loop", boot |-> TRUE, stop |-> "no",
     listener |-> FALSE, chStop |-> FALSE, cancel |-> FALSE, stale |-> 0,
     backfill |-> NoBackfill, orphans |-> 0, read |-> [lastPersisted |-> 0, currentBlockNumber |-> 0],
     head |-> 0, inflight |-> {}, queue |-> {}, enq |-> {}, fails |-> 0, retries |-> 0]

MonOp == [op |-> "MonitorService", args |-> <<>>, err |-> Nil, pre |-> <<>>]

\* A step of the service that leaves the database alone.
MonStep(m) ==
    /\ mon' = m
    /\ lastOp' = MonOp
    /\ s6Obs' = S6Off
    /\ UNCHANGED <<blocks, meta, missingIndex, contracts, pending, mem, tokens, data, calls, svc>>

\* The states of the supervisor as the specification names them.
SupervisorState(m) ==
    IF m.pc = "stopped" THEN "Stopped"
    ELSE IF m.pc \in {"stopWaitCancel", "stopWaitGroup"} THEN "Stopping"
    ELSE IF m.pc = "select" THEN "Running"
    ELSE IF m.boot THEN "Bootstrapping"
    ELSE "Reconnecting"

\* Stop(): the stop event is handed to the feed.
Stop ==
    /\ mon.stop = "no"
    /\ MonStep([mon EXCEPT !.stop = "sent"])

\* listenToChainHead: subscribed is the outcome of SubscribeNewHead.
ListenToChainHead(subscribed) ==
    /\ mon.pc = "loop"
    /\ MonStep(IF subscribed
               THEN [mon EXCEPT !.pc = "sync", !.listener = TRUE, !.chStop = FALSE,
                                !.cancel = FALSE, !.inflight = {}, !.enq = {}]
               ELSE [mon EXCEPT !.pc = "sleep",
                                !.fails = IF @ < MaxFails THEN @ + 1 ELSE @])

\* The range syncHistoricBlocks hands to syncBlocks.
SyncRangeSkipsFirst(lastPersisted, currentBlockNumber) ==
    [from |-> lastPersisted + 2, to |-> currentBlockNumber]

SyncRange(lastPersisted, currentBlockNumber) ==
    [from |-> lastPersisted + 1, to |-> currentBlockNumber]

\* syncHistoricBlocks: ok is FALSE when currentBlockNumber or
\* GetLastPersistedBlockNumber returns an error; run() then closes chStopChan.
SyncHistoricBlocks(ok) ==
    /\ mon.pc = "sync"
    /\ ~ok /\ mon.listener => mon.stale < MaxStale
    /\ LET r == SyncRange(LastPersisted, mon.head)
       IN  MonStep(IF ok /\ GetLastPersistedBlockNumber(meta).err = Nil
                   THEN [mon EXCEPT !.pc = "select", !.boot = FALSE,
                                    !.read = [lastPersisted |-> LastPersisted,
                                              currentBlockNumber |-> mon.head],
                                    !.backfill = [state |-> "running",
                                                  next |-> r.from, to |-> r.to],
                                    !.orphans = IF mon.backfill.state = "running"
                                                THEN @ + 1 ELSE @]
                   ELSE [mon EXCEPT !.pc = "sleep", !.chStop = TRUE,
                                    !.listener = FALSE, !.inflight = {},
                                    !.stale = IF mon.listener THEN @ + 1 ELSE @])

\* select: case <-stopChan.
SelectStop ==
    /\ mon.pc = "select" /\ mon.stop = "sent"
    /\ MonStep([mon EXCEPT !.pc = "stopWaitCancel", !.stop = "received",
                           !.chStop = TRUE])

\* select: case <-cancelChan.
SelectCancel ==
    /\ mon.pc = "select" /\ mon.cancel
    /\ MonStep([mon EXCEPT !.pc = "cancelWaitGroup"])

\* <-cancelChan after a stop.
StopAwaitCancel ==
    /\ mon.pc = "stopWaitCancel" /\ mon.cancel
    /\ MonStep([mon EXCEPT !.pc = "stopWaitGroup"])

WaitGroupSkipsWait ==
    /\ mon.pc \in {"stopWaitGroup", "cancelWaitGroup"}
    /\ MonStep([mon EXCEPT !.pc = IF mon.pc = "stopWaitGroup" THEN "stopped" ELSE "sleep"])

\* wg.Wait() returns once the backfill goroutine has called wg.Done().
WaitGroup ==
    /\ mon.pc \in {"stopWaitGroup", "cancelWaitGroup"}
    /\ mon.backfill.state = "done"
    /\ MonStep([mon EXCEPT !.pc = IF mon.pc = "stopWaitGroup" THEN "stopped" ELSE "sleep",
                           !.backfill = NoBackfill, !.fails = 0])

Sleep ==
    /\ mon.pc = "sleep"
    /\ MonStep([mon EXCEPT !.pc = "loop"])

\* The listener goroutine: a header of the subscription is processed.
ListenerHeader(h) ==
    /\ mon.listener /\ h \in mon.inflight
    /\ MonStep([mon EXCEPT !.inflight = @ \ {h}, !.queue = @ \cup {h},
                           !.enq = @ \cup {h}])

\* The listener goroutine returns, on a subscription error or on chStopChan, and
\* closes cancelChan.
ListenerExit(subscriptionError) ==
    /\ mon.listener
    /\ subscriptionError \/ mon.chStop
    /\ MonStep([mon EXCEPT !.listener = FALSE, !.cancel = TRUE, !.inflight = {}])

\* A listener of an earlier iteration, its chStopChan closed, returns.
StaleListenerExit ==
    /\ mon.stale > 0
    /\ MonStep([mon EXCEPT !.stale = @ - 1])

\* The backfill goroutine: syncBlocks enqueues the next block of its range, or
\* returns at the end of the range or on the closed cancelChan.
BackfillStep(enqueue) ==
    /\ mon.backfill.state = "running"
    /\ IF enqueue
       THEN /\ mon.backfill.next <= mon.backfill.to
            /\ MonStep([mon EXCEPT !.backfill.next = @ + 1,
                                   !.queue = @ \cup {mon.backfill.next},
                                   !.enq = @ \cup {mon.backfill.next}])
       ELSE /\ mon.cancel \/ mon.backfill.next > mon.backfill.to
            /\ MonStep([mon EXCEPT !.backfill.state = "done"])

\* The block number a failed syncBlocks carries in its error, for a failure while
\* fetching block `next`: that block, or the last block fetched before it; never a
\* block below the range.
EndBlockNumbers(from, next) == {e \in {next - 1, next} : e >= from}

\* The range of the retry: syncBlocks(err.EndBlockNumber(), currentBlockNumber, ...).
RetryRangeSkipsFailed(endBlockNumber, currentBlockNumber) ==
    [from |-> endBlockNumber + 1, to |-> currentBlockNumber]

RetryRange(endBlockNumber, currentBlockNumber) ==
    [from |-> endBlockNumber, to |-> currentBlockNumber]

\* The backfill goroutine: syncBlocks returns an error carrying endBlockNumber; the
\* loop sleeps and calls syncBlocks again.  A cancelled syncBlocks returns nil.
SyncBlocksFails(endBlockNumber) ==
    /\ mon.backfill.state = "running" /\ ~mon.cancel
    /\ mon.backfill.next <= mon.backfill.to
    /\ mon.retries < MaxRetries
    /\ endBlockNumber \in EndBlockNumbers(mon.read.lastPersisted + 1, mon.backfill.next)
    /\ LET r == RetryRange(endBlockNumber, mon.read.currentBlockNumber)
       IN  MonStep([mon EXCEPT !.backfill.next = r.from, !.backfill.to = r.to,
                               !.retries = @ + 1])

\* The chain grows by one block; a live subscription gets its header.
NewHead ==
    /\ mon.head < MaxHead
    /\ MonStep([mon EXCEPT !.head = @ + 1,
                           !.inflight = IF mon.listener THEN @ \cup {mon.head + 1} ELSE @])

\* A worker and the batch writer take a block off the queue and write it.
ProcessBlock(b) ==
    /\ b \in mon.queue
    /\ LET r == WriteBlockResult(blocks, meta, b, NoFault)
       IN  /\ blocks' = r.blocks
           /\ meta' = r.meta
    /\ mon' = [mon EXCEPT !.queue = @ \ {b}]
    /\ lastOp' = MonOp
    /\ s6Obs' = S6Off
    /\ UNCHANGED <<missingIndex, contracts, pending, mem, tokens, data, calls, svc>>

\* ------------------------------------------------------------- Start / Stop
\* The goroutines Start() creates: run() (the supervisor), the BatchWriter and
\* totalWorkers workers.  Each subscribes to stopFeed as its first statement, on
\* its own goroutine.  svc.task is where each one stands:
\*   "none"        Start() was not called
\*   "spawned"     the go statement ran, subscribeStopEvent() did not yet
\*   "subscribed"  its channel is registered with stopFeed
\*   "returned"    the goroutine has returned (run() has when mon.pc = "stopped")
\* Stop() is stopFeed.Send: it takes the channels subscribed at that moment and
\* blocks until each of them has received the event; svc.to holds the workers and
\* the BatchWriter it still has to reach, mon.stop = "sent" says the same of run().
totalWorkers == MaxWorkers
Supervisor == 0
Writer == 1
Workers == 2..(totalWorkers + 1)
Tasks == {Supervisor, Writer} \cup Workers

ServiceInit ==
    [started |-> FALSE, task |-> [t \in Tasks |-> "none"], stop |-> "no", to |-> {}]

SvcStep(v) ==
    /\ svc' = v
    /\ UNCHANGED <<blocks, meta, missingIndex, contracts, pending, mem, tokens, data, mon,
                   lastOp, s6Obs, calls>>

\* Start(): startBatchWriter, startWorkers, go m.run(); then it returns nil.
Start ==
    /\ ~svc.started
    /\ SvcStep([svc EXCEPT !.started = TRUE, !.task = [t \in Tasks |-> "spawned"]])

\* subscribeStopEvent() on the goroutine of task t.
SubscribeStopEvent(t) ==
    /\ svc.task[t] = "spawned"
    /\ SvcStep([svc EXCEPT !.task[t] = "subscribed"])

\* Stop(): stopFeed.Send starts with the channels subscribed so far.
StopSend ==
    /\ svc.started /\ svc.stop = "no"
    /\ svc' = [svc EXCEPT !.stop = "sending",
                          !.to = {t \in Tasks \ {Supervisor} : svc.task[t] = "subscribed"}]
    /\ mon' = [mon EXCEPT !.stop = IF svc.task[Supervisor] = "subscribed" THEN "sent" ELSE @]
    /\ UNCHANGED <<blocks, meta, missingIndex, contracts, pending, mem, tokens, data,
                   lastOp, s6Obs, calls>>

\* A worker or the BatchWriter takes the event off its stop channel and returns.
ReceiveStop(t) ==
    /\ t \in svc.to
    /\ SvcStep([svc EXCEPT !.to = @ \ {t}, !.task[t] = "returned"])

\* stopFeed.Send has reached every channel it started with: Stop() returns.
StopReturn ==
    /\ svc.stop = "sending" /\ svc.to = {} /\ mon.stop # "sent"
    /\ SvcStep([svc EXCEPT !.stop = "returned"])

\* run() steps only once its goroutine has subscribed.
SupervisorRuns == svc.task[Supervisor] = "subscribed"

\* Chain-head listeners alive: the one of this iteration and those of earlier
\* iterations that have not returned yet.
Listeners(m) == (IF m.listener THEN 1 ELSE 0) + m.stale

\* ------------------------------------------------------------- storage parsing
\* A storage word is the byte string its hex text decodes to: a sequence of
\* bytes, 32 of them in a well-formed snapshot.  A Go slice expression s[lo:hi]
\* faults when its bounds are out of range.
WordBytes == 32

Slice(s, lo, hi) ==
    LET fault == lo < 0 \/ lo > hi \/ hi > Len(s)
    IN  [panic |-> fault, val |-> IF fault THEN <<>> ELSE SubSeq(s, lo + 1, hi)]

ExtractFromHighOrderEnd(offset, numberOfBytes, storageEntry) ==
    Slice(storageEntry, offset, (offset + numberOfBytes) % UintMod)

\* bytes[32-offset-numberOfBytes : 32-offset], the bounds computed on uint64.
ExtractFromSingleStorage(offset, numberOfBytes, storageEntry) ==
    Slice(storageEntry, (WordBytes - offset - numberOfBytes) % UintMod,
          (WordBytes - offset) % UintMod)

roundDownTo32(n) == (n \div 32) * 32
roundUpTo32(n) == (((n + 31) % UintMod) \div 32) * 32

\* ResolveSlot: slotOffset + givenSlot.  keccak256 of the padded slot is a map
\* into a region of its own, apart from the slots of the layout.
ResolveSlot(slotOffset, givenSlot) == slotOffset + givenSlot
hash(slot) == 64 + 8 * slot

\* An arbitrary-precision unsigned integer is its big-endian bytes without
\* leading zeros; Uint64() keeps the low-order bits of it.
RECURSIVE ParserParseUint(_)
ParserParseUint(bytes) ==
    IF Len(bytes) > 0 /\ bytes[1] = 0 THEN ParserParseUint(Tail(bytes)) ELSE bytes

RECURSIVE BytesValue(_)
BytesValue(bytes) ==
    IF Len(bytes) = 0 THEN 0
    ELSE 256 * BytesValue(SubSeq(bytes, 1, Len(bytes) - 1)) + bytes[Len(bytes)]

Uint64(int) ==
    LET n == (UintBits + 7) \div 8
        low == IF Len(int) <= n THEN int ELSE SubSeq(int, Len(int) - n + 1, Len(int))
    IN  BytesValue(low) % UintMod

\* strings.LastIndex for a one-character separator: the 0-based position of its
\* last occurrence, -1 if there is none.
LastIndex(name, c) ==
    IF \E i \in DOMAIN name : name[i] = c
    THEN (CHOOSE i \in DOMAIN name :
              name[i] = c /\ \A j \in DOMAIN name : name[j] = c => j <= i) - 1
    ELSE -1

\* strconv.ParseUint(size, 10, 0): decimal digits only, at least one, and a value
\* within the unsigned integer.
DecDigits == <<"0", "1", "2", "3", "4", "5", "6", "7", "8", "9">>
DecValue(c) == (CHOOSE i \in DOMAIN DecDigits : DecDigits[i] = c) - 1

RECURSIVE DecNumber(_)
DecNumber(digits) ==
    IF Len(digits) = 0 THEN 0
    ELSE 10 * DecNumber(SubSeq(digits, 1, Len(digits) - 1)) + DecValue(digits[Len(digits)])

strconvParseUint(size) ==
    LET syntax == \/ Len(size) = 0
                  \/ \E i \in DOMAIN size :
                         \A j \in DOMAIN DecDigits : DecDigits[j] # size[i]
        range == ~syntax /\ DecNumber(size) > MaxUint
    IN  [outcome |-> IF syntax \/ range THEN "error" ELSE "ok",
         size |-> IF syntax THEN 0 ELSE IF range THEN MaxUint ELSE DecNumber(size)]

\* determineSize: for a dynamic array the low 64 bits of the integer in the word
\* at the resolved slot; for a static array the decimal number between the last
\* ")" and the last "_" of the type name.
determineSize(name, isDynamic, word) ==
    IF isDynamic
    THEN LET extracted == ExtractFromSingleStorage(0, 32, word)
         IN  [outcome |-> IF extracted.panic THEN "panic" ELSE "ok",
              size |-> IF extracted.panic THEN 0
                       ELSE Uint64(ParserParseUint(extracted.val))]
    ELSE LET startOfAmount == LastIndex(name, ")")
             endOfAmount == LastIndex(name, "_")
             size == Slice(name, startOfAmount + 1, endOfAmount)
             parsed == strconvParseUint(size.val)
         IN  [outcome |-> IF size.panic THEN "panic" ELSE parsed.outcome,
              size |-> IF size.panic THEN 0 ELSE parsed.size]

\* createArrayStorageDocument: the synthesized entries of the elements, packed.
RECURSIVE ArrayEntries(_, _, _, _, _)
ArrayEntries(i, sizeOfArray, sizeOfElement, currentSlot, currentOffset) ==
    IF i >= sizeOfArray THEN <<>>
    ELSE LET next == (currentOffset + sizeOfElement) % UintMod
             advance == (next + sizeOfElement) % UintMod > 32
         IN  <<[offset |-> currentOffset, slot |-> currentSlot]>> \o
             ArrayEntries(i + 1, sizeOfArray, sizeOfElement,
                          IF advance
                          THEN (currentSlot + roundUpTo32(next) \div 32) % UintMod
                          ELSE currentSlot,
                          IF advance THEN 0 ELSE next)

createArrayStorageDocument(sizeOfArray, sizeOfElement) ==
    ArrayEntries(0, sizeOfArray, sizeOfElement, 0, 0)

\* The words of a snapshot: slot -> word, the zero word where nothing is stored.
Word(hi, mid, lo) ==
    [i \in 1..WordBytes |->
        IF i = 1 THEN hi ELSE IF i = WordBytes \div 2 THEN mid
        ELSE IF i = WordBytes THEN lo ELSE 0]

Get(storage, slot) == IF slot \in DOMAIN storage THEN storage[slot] ELSE Word(0, 0, 0)

\* ParseRawStorage of a parser over a document of unsigned-integer entries: the
\* value of each entry, in document order.
ParseRawStorage(storage, doc, numberOfBytes, slotOffset) ==
    LET extracted == [i \in DOMAIN doc |->
                         ExtractFromSingleStorage(
                             doc[i].offset, numberOfBytes,
                             Get(storage, ResolveSlot(slotOffset, doc[i].slot)))]
        fault == \E i \in DOMAIN doc : extracted[i].panic
    IN  [outcome |-> IF fault THEN "panic" ELSE "ok",
         val |-> IF fault THEN <<>>
                 ELSE [i \in DOMAIN doc |-> ParserParseUint(extracted[i].val)]]

ParseArray(storage, slotOffset, slot, name, isDynamic, sizeOfElement) ==
    LET sizeOfArray == determineSize(name, isDynamic,
                                     Get(storage, ResolveSlot(slotOffset, slot)))
        storageSlot == IF isDynamic THEN hash(ResolveSlot(slotOffset, slot))
                       ELSE ResolveSlot(slotOffset, slot)
    IN  IF sizeOfArray.outcome # "ok"
        THEN [outcome |-> sizeOfArray.outcome, val |-> <<>>]
        ELSE ParseRawStorage(storage,
                             createArrayStorageDocument(sizeOfArray.size, sizeOfElement),
                             sizeOfElement, storageSlot)

\* A snapshot holding one array of unsigned integers laid out at a resolved slot:
\* a dynamic array has its length word there and its data words from the hash of
\* the slot on, a static array has its data words from the slot on; data word i
\* holds 10 * (i + 1) in its low-order byte and mid in the middle; other words
\* around the slot hold something else.
ArrayStorage(isDynamic, resolved, lengthWord, mid) ==
    LET base == IF isDynamic THEN hash(resolved) ELSE resolved
    IN  [x \in (resolved..(resolved + MaxLen + 1)) \cup (base..(base + MaxLen + 1)) |->
            IF isDynamic /\ x = resolved THEN lengthWord
            ELSE IF x >= base /\ x <= base + MaxLen THEN Word(0, mid, 10 * (x - base + 1))
            ELSE Word(0, 0, 99)]

\* The type name of a static array of n elements.
ArrayTypeName(n) == <<"t", ")", DecDigits[n + 1], "_">>

ParserCall(op, args, outcome, val) ==
    /\ lastOp' = [op |-> op, args |-> args,
                  err |-> IF outcome = "error" THEN ErrTransient ELSE Nil,
                  pre |-> [outcome |-> outcome, val |-> val]]
    /\ s6Obs' = S6Off
    /\ UNCHANGED <<blocks, meta, missingIndex, contracts, pending, mem, tokens, mon, data, calls, svc>>

CallDetermineSize(name, isDynamic, word) ==
    ParserCall("determineSize", <<name, isDynamic, word>>,
               determineSize(name, isDynamic, word).outcome,
               determineSize(name, isDynamic, word).size)

CallExtractFromSingleStorage(offset, numberOfBytes, word) ==
    LET r == ExtractFromSingleStorage(offset, numberOfBytes, word)
    IN  ParserCall("ExtractFromSingleStorage", <<offset, numberOfBytes, word>>,
                   IF r.panic THEN "panic" ELSE "ok", r.val)

CallCreateArrayStorageDocument(sizeOfArray, sizeOfElement) ==
    ParserCall("createArrayStorageDocument", <<sizeOfArray, sizeOfElement>>,
               "ok", createArrayStorageDocument(sizeOfArray, sizeOfElement))

CallParseArray(isDynamic, slotOffset, slot, hi, n, mid, sizeOfElement) ==
    LET r == ParseArray(ArrayStorage(isDynamic, ResolveSlot(slotOffset, slot),
                                     Word(hi, 0, n), mid),
                        slotOffset, slot, ArrayTypeName(n), isDynamic, sizeOfElement)
    IN  ParserCall("ParseArray",
                   <<isDynamic, slotOffset, slot, hi, n, mid, sizeOfElement>>,
                   r.outcome, r.val)

\* ------------------------------------------------------------- TransactionMonitor
\* A hex string of the upstream response: whether it starts with 0x, and the
\* characters after the prefix.  "g" stands for a character that is no hex digit.
HexDigits == {"0", "1", "f"}
HexChars == HexDigits \cup {"g"}
HexValue(c) == IF c = "0" THEN 0 ELSE IF c = "1" THEN 1 ELSE 15

RECURSIVE ParseUint(_)
ParseUint(digits) ==
    IF Len(digits) = 0 THEN 0
    ELSE 16 * ParseUint(SubSeq(digits, 1, Len(digits) - 1)) + HexValue(digits[Len(digits)])

\* hexutil.DecodeUint64: a 0x prefix, at least one digit, no leading zero, hex
\* digits only, and a value that fits the unsigned integer.
DecodeUint64(h) ==
    IF \/ ~h.prefix
       \/ Len(h.digits) = 0
       \/ (Len(h.digits) > 1 /\ h.digits[1] = "0")
       \/ \E i \in DOMAIN h.digits : h.digits[i] \notin HexDigits
       \/ 4 * Len(h.digits) > UintBits
    THEN [ok |-> FALSE, val |-> 0]
    ELSE [ok |-> TRUE, val |-> ParseUint(h.digits)]

\* hexutil.Decode, which MustDecode calls: a 0x prefix, an even number of
\* characters, hex digits only ("0x" is the empty byte string).
Decode(h) ==
    IF \/ ~h.prefix
       \/ Len(h.digits) % 2 = 1
       \/ \E i \in DOMAIN h.digits : h.digits[i] \notin HexDigits
    THEN [ok |-> FALSE, val |-> <<>>]
    ELSE [ok |-> TRUE, val |-> h.digits]

\* The hex fields of the GraphQL response and of the call trace, in the order
\* createTransaction decodes them, with the decoder it uses on each.
HexFields ==
    << [name |-> "block.number", must |-> FALSE], [name |-> "nonce", must |-> FALSE],
       [name |-> "value", must |-> FALSE], [name |-> "gas", must |-> FALSE],
       [name |-> "gasUsed", must |-> FALSE],
       [name |-> "cumulativeGasUsed", must |-> FALSE],
       [name |-> "inputData", must |-> TRUE],
       [name |-> "privateInputData", must |-> TRUE],
       [name |-> "log.data", must |-> TRUE],
       [name |-> "call.gas", must |-> FALSE], [name |-> "call.gasUsed", must |-> FALSE],
       [name |-> "call.value", must |-> FALSE],
       [name |-> "call.input", must |-> TRUE], [name |-> "call.output", must |-> TRUE] >>

FieldDecodes(field, h) == IF field.must THEN Decode(h).ok ELSE DecodeUint64(h).ok

\* createTransaction on a response whose fields are resp (field name -> hex
\* string): the fields are decoded in order; DecodeUint64 failing returns the
\* error, MustDecode failing panics.
RECURSIVE createTransaction(_, _)
createTransaction(resp, i) ==
    IF i > Len(HexFields) THEN [outcome |-> "transaction", err |-> Nil]
    ELSE IF FieldDecodes(HexFields[i], resp[HexFields[i].name])
         THEN createTransaction(resp, i + 1)
    ELSE IF HexFields[i].must THEN [outcome |-> "panic", err |-> Nil]
    ELSE [outcome |-> "error", err |-> ErrTransient]

\* A response that decodes, and the same with one field replaced.
GoodHex(field) ==
    IF field.must THEN [prefix |-> TRUE, digits |-> <<"f", "f">>]
    ELSE [prefix |-> TRUE, digits |-> <<"1">>]
GoodResponse == [n \in {HexFields[i].name : i \in DOMAIN HexFields} |->
                    GoodHex(CHOOSE f \in {HexFields[i] : i \in DOMAIN HexFields} :
                                f.name = n)]

PullTransaction(name, h) ==
    LET resp == [GoodResponse EXCEPT ![name] = h]
        r == createTransaction(resp, 1)
    IN  /\ lastOp' = [op |-> "createTransaction", args |-> <<name, h>>, err |-> r.err,
                      pre |-> [outcome |-> r.outcome]]
        /\ s6Obs' = S6Off
        /\ UNCHANGED <<blocks, meta, missingIndex, contracts, pending, mem, tokens, mon, data, calls, svc>>

\* The call trace of createTransaction.  A call of the trace has a value entry
\* that is a string (present, with its text) or is missing or no string.  The
\* local variable value holds the decoded value of the transaction when the
\* loop starts; tx.Value holds a copy of it.
NoValue == [present |-> FALSE, text |-> [prefix |-> FALSE, digits |-> <<>>]]
HasValue(h) == [present |-> TRUE, text |-> h]

\* The loop body without "value = uint64(0)".
KeepValue(value) == value

\* value = uint64(0), the first statement on value of each iteration.
ResetValue(value) == 0

\* The loop over respCalls: st.value is the local variable, st.tx the
\* transaction being built; a value text that fails to decode returns the error
\* and no transaction.
RECURSIVE TraceCalls(_, _, _)
TraceCalls(st, respCalls, i) ==
    IF i > Len(respCalls) THEN st
    ELSE LET field == respCalls[i].value
             d == DecodeUint64(field.text)
             zero == ResetValue(st.value)
             value == IF field.present THEN d.val ELSE zero
         IN  IF field.present /\ ~d.ok
             THEN [st EXCEPT !.outcome = "error", !.err = ErrTransient]
             ELSE TraceCalls([st EXCEPT !.value = value,
                                        !.tx.InternalCalls = Append(@, [Value |-> value])],
                             respCalls, i + 1)

\* createTransaction on a response whose value text is txValue and whose trace
\* is respCalls, every other field decoding.
TraceResult(txValue, respCalls) ==
    LET d == DecodeUint64(txValue)
    IN  IF ~d.ok
        THEN [value |-> 0, tx |-> [Value |-> 0, InternalCalls |-> <<>>],
              outcome |-> "error", err |-> ErrTransient]
        ELSE TraceCalls([value |-> d.val,
                         tx |-> [Value |-> d.val, InternalCalls |-> <<>>],
                         outcome |-> "transaction", err |-> Nil],
                        respCalls, 1)

TraceTransaction(txValue, respCalls) ==
    /\ lastOp' = [op |-> "traceTransaction", args |-> <<txValue, respCalls>>,
                  err |-> TraceResult(txValue, respCalls).err,
                  pre |-> [outcome |-> TraceResult(txValue, respCalls).outcome,
                           tx |-> TraceResult(txValue, respCalls).tx]]
    /\ s6Obs' = S6Off
    /\ UNCHANGED <<blocks, meta, missingIndex, contracts, pending, mem, tokens, mon, data, calls, svc>>

\* PullTransactions(block): for each hash of the block in order, createTransaction
\* on the upstream response for it, then WriteTransaction (an index request, the
\* document id being the hash); the first error is returned.  upstream: hash ->
\* the block.number and inputData texts of the response; failing: the position of
\* the write that fails, 0 for none.
TransactionResponse(answer) ==
    [GoodResponse EXCEPT !["block.number"] = answer.number, !["inputData"] = answer.input]

RECURSIVE PullTransactionsResult(_, _, _, _, _)
PullTransactionsResult(index, txs, upstream, failing, i) ==
    IF i > Len(txs) THEN [index |-> index, outcome |-> "nil", done |-> i - 1]
    ELSE LET resp == TransactionResponse(upstream[txs[i]])
             tx == createTransaction(resp, 1)
             row == [blockNumber |-> DecodeUint64(resp["block.number"]).val]
         IN  IF tx.outcome # "transaction" \/ failing = i
             THEN [index |-> index,
                   outcome |-> IF tx.outcome = "panic" THEN "panic" ELSE "error",
                   done |-> i - 1]
             ELSE PullTransactionsResult(IndexDoc(index, txs[i], row), txs, upstream,
                                         failing, i + 1)

PullTransactions(number, txs, upstream, failing) ==
    LET r == PullTransactionsResult(data.transactions, txs, upstream, failing, 1)
    IN  /\ data' = [data EXCEPT !.transactions = r.index]
        /\ lastOp' = [op |-> "PullTransactions", args |-> <<number, txs>>,
                      err |-> IF r.outcome = "error" THEN ErrTransient ELSE Nil,
                      pre |-> [outcome |-> r.outcome, done |-> r.done]]
        /\ s6Obs' = S6Off
        /\ UNCHANGED <<blocks, meta, missingIndex, contracts, pending, mem, tokens, mon, calls, svc>>

\* ------------------------------------------------------------- in-memory backend
\* The in-memory database keeps, per address, lastFiltered and an index history
\* that survives deletion.
MemGetLastFiltered(m, address) ==
    IF address \in DOMAIN m.lastFiltered THEN m.lastFiltered[address] ELSE 0

PreMem(address) == [lf |-> [val |-> MemGetLastFiltered(mem, address), err |-> Nil]]

RECURSIVE MemAddAddressesResult(_, _, _)
MemAddAddressesResult(m, addresses, i) ==
    IF i > Len(addresses) THEN m
    ELSE LET a == addresses[i]
             added == [addresses |-> m.addresses \cup {a},
                       lastFiltered |-> IndexDoc(m.lastFiltered, a,
                                                 IF a \in DOMAIN m.indexHistory
                                                 THEN m.indexHistory[a] ELSE 0),
                       indexHistory |-> m.indexHistory]
         IN  MemAddAddressesResult(IF a \in m.addresses THEN m ELSE added,
                                   addresses, i + 1)

MemAddAddresses(addresses) ==
    /\ mem' = MemAddAddressesResult(mem, addresses, 1)
    /\ lastOp' = [op |-> "MemAddAddresses", args |-> addresses, err |-> Nil,
                  pre |-> PreAdd(addresses, "MemDeleteAddress")]
    /\ s6Obs' = S6Off
    /\ UNCHANGED <<blocks, meta, missingIndex, contracts, pending, tokens, mon, data, calls, svc>>

MemDeleteAddressResult(m, address) ==
    IF address \notin m.addresses THEN [mem |-> m, err |-> ErrNotFound]
    ELSE [mem |-> [addresses |-> m.addresses \ {address},
                   lastFiltered |-> DeleteDoc(m.lastFiltered, address),
                   indexHistory |-> IndexDoc(m.indexHistory, address,
                                             MemGetLastFiltered(m, address))],
          err |-> Nil]

MemDeleteAddress(address) ==
    LET r == MemDeleteAddressResult(mem, address)
    IN  /\ mem' = r.mem
        /\ lastOp' = [op |-> "MemDeleteAddress", args |-> <<address>>, err |-> r.err,
                      pre |-> PreMem(address)]
        /\ s6Obs' = S6Off
        /\ UNCHANGED <<blocks, meta, missingIndex, contracts, pending, tokens, mon, data, calls, svc>>

MemIndexBlockResult(m, address, number) ==
    IF address \notin m.addresses THEN [mem |-> m, err |-> ErrNotFound]
    ELSE [mem |-> [m EXCEPT !.lastFiltered =
                       IndexDoc(m.lastFiltered, address,
                                Max({MemGetLastFiltered(m, address), number}))],
          err |-> Nil]

MemIndexBlock(address, number) ==
    LET r == MemIndexBlockResult(mem, address, number)
    IN  /\ mem' = r.mem
        /\ lastOp' = [op |-> "MemIndexBlock", args |-> <<address, number>>, err |-> r.err,
                      pre |-> PreMem(address)]
        /\ s6Obs' = S6Off
        /\ UNCHANGED <<blocks, meta, missingIndex, contracts, pending, tokens, mon, data, calls, svc>>

\* ------------------------------------------------------------- concurrent WriteBlock
\* WriteBlock takes no lock: each of its requests (the index of the block, the get
\* of lastPersisted, every ReadBlock of the probe, the put of lastPersisted) is one
\* step, and the steps of calls on different goroutines interleave.  pc names the
\* request a call makes next; last and blockNumber are the locals of
\* updateLastPersisted.
Calls == 1..MaxCalls
Idle == [pc |-> "idle", number |-> 0, last |-> 0, blockNumber |-> 0]

CallStep(c, call) ==
    /\ calls' = [calls EXCEPT ![c] = call]
    /\ UNCHANGED <<missingIndex, contracts, pending, mem, tokens, mon, data, lastOp, s6Obs, svc>>

\* DoRequest(IndexRequest{Index: BlockIndex, ...}): the block is stored.
WriteBlockIndex(c, number) ==
    /\ calls[c].pc = "idle"
    /\ blocks' = blocks \cup {number}
    /\ UNCHANGED meta
    /\ CallStep(c, [pc |-> "get", number |-> number, last |-> 0, blockNumber |-> 0])

\* last, err := es.GetLastPersistedBlockNumber(); blockNumber == last+1 decides
\* whether the call probes or returns nil at once.
WriteBlockGet(c) ==
    /\ calls[c].pc = "get"
    /\ LET last == GetLastPersistedBlockNumber(meta).val
           probes == calls[c].number = (last + 1) % UintMod
       IN  CallStep(c, [pc |-> IF probes THEN "probe" ELSE "returned",
                        number |-> calls[c].number, last |-> last,
                        blockNumber |-> IF probes THEN calls[c].number ELSE 0])
    /\ UNCHANGED <<blocks, meta>>

\* One round of the loop: es.ReadBlock(blockNumber + 1).
WriteBlockProbe(c) ==
    /\ calls[c].pc = "probe"
    /\ IF ReadBlock(blocks, calls[c].blockNumber + 1)
       THEN CallStep(c, [calls[c] EXCEPT !.blockNumber = @ + 1])
       ELSE CallStep(c, [calls[c] EXCEPT !.pc = "put"])
    /\ UNCHANGED <<blocks, meta>>

\* DoRequest(IndexRequest{Index: MetaIndex, DocumentID: "lastPersisted", ...}).
WriteBlockPut(c) ==
    /\ calls[c].pc = "put"
    /\ meta' = IndexDoc(meta, "lastPersisted", calls[c].blockNumber)
    /\ UNCHANGED blocks
    /\ CallStep(c, [calls[c] EXCEPT !.pc = "returned"])

\* The goroutine is free for its next call.
WriteBlockReturn(c) ==
    /\ calls[c].pc = "returned"
    /\ UNCHANGED <<blocks, meta>>
    /\ CallStep(c, Idle)

\* ------------------------------------------------------------- specification
\* One request of a call fails in transit, or none does.
RequestFaultsUpTo(maxBlock) ==
    {NoFault, [at |-> "index"], [at |-> "get"], [at |-> "put"]}
        \cup {[at |-> "read", n |-> k] : k \in 2..maxBlock}
RequestFaults == RequestFaultsUpTo(MaxBlock)
BulkFaults(batch) ==
    {NoFault, [at |-> "get"], [at |-> "put"]}
        \cup {[at |-> "read", n |-> k] : k \in 2..MaxBlock}
        \cup {[at |-> "item", item |-> i] : i \in DOMAIN batch}
Batches == UNION {[1..n -> BlockNums] : n \in 0..MaxBatch}
WriteFaults(batch) == IF Len(batch) >= 2 THEN BulkFaults(batch) ELSE RequestFaults

Init ==
    /\ blocks = {}
    /\ meta \in {EmptyIndex, IndexDoc(EmptyIndex, "lastPersisted", 0)}
    /\ missingIndex \in BOOLEAN
    /\ contracts = EmptyIndex
    /\ pending = {}
    /\ mem = [addresses |-> {}, lastFiltered |-> EmptyIndex, indexHistory |-> EmptyIndex]
    /\ tokens = EmptyIndex
    /\ mon = MonitorInit
    /\ data = [state |-> EmptyIndex, storage |-> EmptyIndex, events |-> EmptyIndex,
               transactions |-> EmptyIndex]
    /\ lastOp = [op |-> "New", args |-> <<>>, err |-> Nil,
                 pre |-> [lp |-> 0, tight |-> TRUE]]
    /\ s6Obs = [on |-> "lastPersisted" \in DOMAIN meta, seen |-> <<>>]
    /\ calls = [c \in Calls |-> Idle]
    /\ svc = ServiceInit

Next ==
    \/ \E catFails, created, sentinelOk \in BOOLEAN : New(catFails, created, sentinelOk)
    \/ \E b \in BlockNums, f \in RequestFaults : WriteBlock(b, f)
    \/ \E batch \in Batches : \E f \in WriteFaults(batch) : WriteBlocks(batch, f)

Spec == Init /\ [][Next]_vars

\* The address set and the per-address indexing of the document-index backend.
IndexedNums == 1..MaxIndexed
Froms == 0..(MaxIndexed + 1)
SeqsUpTo(S, n) == UNION {[1..k -> S] : k \in 0..n}
AddrLists(addrs) == SeqsUpTo(addrs, Cardinality(addrs))
Distinct(l) == \A i, j \in DOMAIN l : i # j => l[i] # l[j]
DistinctLists(addrs) == {l \in AddrLists(addrs) : Distinct(l)}
\* Block lists as IndexBlocks gets them: distinct block numbers, in any order.
BlockLists == {l \in SeqsUpTo(IndexedNums, MaxBatch) : Len(l) >= 1 /\ Distinct(l)}
IndexFaults == {NoFault, [at |-> "index"]}
AddFaults(addresses) ==
    IF Len(addresses) >= 2
    THEN {NoFault} \cup {[at |-> "item", item |-> i] : i \in DOMAIN addresses}
    ELSE IndexFaults

AddressNext(addrs) ==
    \/ \E l \in AddrLists(addrs) : \E f \in AddFaults(l) : AddAddresses(l, f)
    \/ \E a \in addrs, from \in Froms, f \in IndexFaults : AddAddressFrom(a, from, f)
    \/ \E a \in addrs, f \in IndexFaults : DeleteAddress(a, f)
    \/ \E l \in DistinctLists(addrs), bl \in BlockLists, ok \in BOOLEAN :
            IndexBlocks(l, bl, ok)
    \/ \E item \in pending : Flush(item)

NextIndex == AddressNext(Addrs)

\* The backend came up with every index and the sentinel in place.
InitReady == Init /\ ~missingIndex /\ GetLastPersistedBlockNumber(meta).err = Nil

\* WriteBlock calls on MaxCalls goroutines, for any blocks, on an initialised store.
NextRace ==
    \/ \E c \in Calls, b \in 1..MaxBlock : WriteBlockIndex(c, b)
    \/ \E c \in Calls : WriteBlockGet(c)
    \/ \E c \in Calls : WriteBlockProbe(c)
    \/ \E c \in Calls : WriteBlockPut(c)
    \/ \E c \in Calls : WriteBlockReturn(c)

SpecRace == InitReady /\ [][NextRace]_vars

SpecIndex == InitReady /\ [][NextIndex]_vars

\* Deletion and re-addition of one address, in both backends.
OneAddr == {"a1"}

NextP5 ==
    \/ AddressNext(OneAddr)
    \/ \E l \in AddrLists(OneAddr) : MemAddAddresses(l)
    \/ \E a \in OneAddr : MemDeleteAddress(a)
    \/ \E a \in OneAddr, n \in IndexedNums : MemIndexBlock(a, n)

SpecP5 == InitReady /\ [][NextP5]_vars

\* The address set of the document-index backend on its own: registration,
\* deletion and template assignment of two addresses.
Templates == {"t1"}
UpdateFaults == {NoFault, [at |-> "get"], [at |-> "index"]}

NextAddr ==
    \/ \E l \in AddrLists(Addrs) : \E f \in AddFaults(l) : AddAddresses(l, f)
    \/ \E a \in Addrs, from \in Froms, f \in IndexFaults : AddAddressFrom(a, from, f)
    \/ \E a \in Addrs, f \in IndexFaults : DeleteAddress(a, f)
    \/ \E a \in Addrs, t \in Templates, f \in UpdateFaults : AssignTemplate(a, t, f)

SpecAddr == InitReady /\ [][NextAddr]_vars

\* The ERC-721 records of one token, recorded at block numbers in any order.
TokenFaults == {NoFault, [at |-> "get"], [at |-> "index"], [at |-> "put"]}
\* What the search at block - 1 can return in the current state.
TokenResults(block, fault) ==
    ERC721TokenByTokenID(tokens, (block - 1) % UintMod, fault.at = "get")

NextToken ==
    \E h \in Holders, b \in HeldBlocks, f \in TokenFaults :
        \E existing \in TokenResults(b, f) : RecordERC721Token(h, b, existing, f)

SpecToken == InitReady /\ [][NextToken]_vars

\* The same with every request reaching the store.
NextTokenOk ==
    \E h \in Holders, b \in HeldBlocks :
        \E existing \in TokenResults(b, NoFault) : RecordERC721Token(h, b, existing, NoFault)

SpecTokenOk == InitReady /\ [][NextTokenOk]_vars

\* Token ids up to 2^256 - 1: numbers of every length around the piece borders,
\* zero but for the leading digit and one more digit.
IdLengths == {1, 2, 17, 18, 34, 35, 51, 52, 68, 69, 77, 78}
IdPositions == {1, 17, 18, 34, 35, 51, 52, 68, 69, 77}
TokenId(n, leading, position, digit) ==
    [i \in 1..n |-> IF i = 1 THEN leading
                    ELSE IF i = n + 1 - position THEN digit ELSE 0]
TokenIds ==
    {id \in {TokenId(n, l, p, d) : n \in IdLengths, l \in 1..MaxDigit,
                                   p \in IdPositions, d \in 0..MaxDigit} :
        ~NumLess(MaxTokenId, id)}
        \cup {<<0>>, MaxTokenId}

NextSortKey == \E tokenId \in TokenIds : RecordSortKey(tokenId)

SpecSortKey == InitReady /\ [][NextSortKey]_vars

\* The paginated searches, called with page sizes and page numbers across the
\* range of int.
Searches ==
    {"GetAllTransactionsToAddress", "GetAllTransactionsInternalToAddress",
     "GetAllEventsFromAddress", "GetBalance", "ERC721TokensForAccountAtBlock",
     "AllERC721TokensAtBlock"}
PageValues ==
    {-1, 0, 1, 2, 4, 10, 100, PaginationLimit - 1, PaginationLimit, PaginationLimit + 1,
     2^(IntBits - 2), MaxInt}

NextSearch ==
    \E api \in Searches, ps \in PageValues, pn \in PageValues, failed \in BOOLEAN :
        Search(api, ps, pn, failed)

SpecSearch == InitReady /\ [][NextSearch]_vars

\* The monitor service over a chain that grows to MaxHead.
NextMonitor ==
    \/ Stop
    \/ \E subscribed \in BOOLEAN : ListenToChainHead(subscribed)
    \/ \E ok \in BOOLEAN : SyncHistoricBlocks(ok)
    \/ SelectStop
    \/ SelectCancel
    \/ StopAwaitCancel
    \/ WaitGroup
    \/ Sleep
    \/ \E h \in 1..MaxHead : ListenerHeader(h)
    \/ \E subscriptionError \in BOOLEAN : ListenerExit(subscriptionError)
    \/ StaleListenerExit
    \/ \E enqueue \in BOOLEAN : BackfillStep(enqueue)
    \/ NewHead
    \/ \E b \in 1..MaxHead : ProcessBlock(b)

SpecMonitor == InitReady /\ [][NextMonitor]_vars

\* Every goroutine that can take its next step takes it; a select with stopChan
\* ready picks it sooner or later.  Whether SubscribeNewHead and the set-up of the
\* backfill succeed is up to the node.
MonitorFairness ==
    /\ WF_vars(\E subscribed \in BOOLEAN : ListenToChainHead(subscribed))
    /\ WF_vars(\E ok \in BOOLEAN : SyncHistoricBlocks(ok))
    /\ SF_vars(SelectStop)
    /\ WF_vars(SelectCancel)
    /\ WF_vars(StopAwaitCancel)
    /\ WF_vars(WaitGroup)
    /\ WF_vars(Sleep)
    /\ WF_vars(ListenerExit(FALSE))
    /\ WF_vars(StaleListenerExit)
    /\ WF_vars(\E enqueue \in BOOLEAN : BackfillStep(enqueue))
    /\ WF_vars(\E h \in 1..MaxHead : ListenerHeader(h))

SpecMonitorFair == SpecMonitor /\ MonitorFairness

\* The reconnect loop, its listener and its backfill with syncBlocks failing up to
\* MaxRetries times, over a chain that grows to MaxHead; no stop event, and the
\* queue is not drained.
NextBackfill ==
    \/ \E subscribed \in BOOLEAN : ListenToChainHead(subscribed)
    \/ \E ok \in BOOLEAN : SyncHistoricBlocks(ok)
    \/ SelectCancel
    \/ WaitGroup
    \/ Sleep
    \/ \E h \in 1..MaxHead : ListenerHeader(h)
    \/ \E subscriptionError \in BOOLEAN : ListenerExit(subscriptionError)
    \/ StaleListenerExit
    \/ \E enqueue \in BOOLEAN : BackfillStep(enqueue)
    \/ \E e \in 0..MaxHead : SyncBlocksFails(e)
    \/ NewHead

SpecBackfill == InitReady /\ [][NextBackfill]_vars
SpecBackfillFair == SpecBackfill /\ MonitorFairness

\* Start() and one Stop() at any moment after it, over a chain that does not grow.
NextStop ==
    \/ Start
    \/ \E t \in Tasks : SubscribeStopEvent(t)
    \/ StopSend
    \/ \E t \in Tasks : ReceiveStop(t)
    \/ StopReturn
    \/ SupervisorRuns /\ \E subscribed \in BOOLEAN : ListenToChainHead(subscribed)
    \/ SupervisorRuns /\ \E ok \in BOOLEAN : SyncHistoricBlocks(ok)
    \/ SelectStop
    \/ SelectCancel
    \/ StopAwaitCancel
    \/ WaitGroup
    \/ Sleep
    \/ \E subscriptionError \in BOOLEAN : ListenerExit(subscriptionError)
    \/ StaleListenerExit
    \/ \E enqueue \in BOOLEAN : BackfillStep(enqueue)

StopFairness ==
    /\ \A t \in Tasks : WF_vars(SubscribeStopEvent(t))
    /\ \A t \in Tasks : WF_vars(ReceiveStop(t))
    /\ WF_vars(StopReturn)
    /\ WF_vars(SupervisorRuns /\ \E subscribed \in BOOLEAN : ListenToChainHead(subscribed))
    /\ WF_vars(SupervisorRuns /\ \E ok \in BOOLEAN : SyncHistoricBlocks(ok))
    /\ SF_vars(SelectStop)
    /\ WF_vars(SelectCancel)
    /\ WF_vars(StopAwaitCancel)
    /\ WF_vars(WaitGroup)
    /\ WF_vars(Sleep)
    /\ WF_vars(ListenerExit(FALSE))
    /\ WF_vars(StaleListenerExit)
    /\ WF_vars(\E enqueue \in BOOLEAN : BackfillStep(enqueue))

SpecStop == InitReady /\ [][NextStop]_vars
SpecStopFair == SpecStop /\ StopFairness

\* Transaction enrichment on responses with one hex field of any shape.
HexStrings ==
    {[prefix |-> p, digits |-> d] :
        p \in BOOLEAN,
        d \in SeqsUpTo(HexChars, MaxHexLen)
                 \cup {[i \in 1..(UintBits \div 4 + 1) |-> "f"]}}

NextEnrich ==
    \E i \in DOMAIN HexFields, h \in HexStrings : PullTransaction(HexFields[i].name, h)

SpecEnrich == InitReady /\ [][NextEnrich]_vars

\* Transaction enrichment on call traces: the value text of the transaction has
\* one character, with or without the prefix; each call of the trace has no
\* value or a prefixed one of one character.
ValueTexts == {[prefix |-> p, digits |-> <<c>>] : p \in BOOLEAN, c \in HexChars}
CallValues == {NoValue} \cup {HasValue(h) : h \in {t \in ValueTexts : t.prefix}}
Traces == SeqsUpTo({[value |-> v] : v \in CallValues}, MaxTrace)

NextTrace ==
    \E txValue \in ValueTexts, respCalls \in Traces : TraceTransaction(txValue, respCalls)

SpecTrace == InitReady /\ [][NextTrace]_vars

\* The storage parser on type names, layout entries and words of any shape.
NameChars == {"t", ")", "_", "2"}
TypeNames == SeqsUpTo(NameChars, MaxNameLen)
Words ==
    {Word(0, 1, 2), Word(9, 0, 0), SubSeq(Word(0, 1, 2), 1, WordBytes - 1), <<>>}
Offsets == {0, 1, WordBytes \div 2, WordBytes - 1, WordBytes, WordBytes + 1}
ElementSizes == 1..(WordBytes + 1) \cup {2 * WordBytes, 2 * WordBytes + 1}
ArraySizes == 0..MaxLen \cup {WordBytes + 1}

NextParse ==
    \/ \E name \in TypeNames : CallDetermineSize(name, FALSE, Word(0, 0, 0))
    \/ \E word \in Words : CallDetermineSize(<<>>, TRUE, word)
    \/ \E offset \in Offsets, numberOfBytes \in Offsets, word \in Words :
            CallExtractFromSingleStorage(offset, numberOfBytes, word)
    \/ \E n \in ArraySizes, size \in ElementSizes : CallCreateArrayStorageDocument(n, size)
    \/ \E isDynamic \in BOOLEAN, slotOffset \in {0, 1}, slot \in {0, 5}, hi \in {0, 1},
          n \in 0..MaxLen, mid \in {0, 7}, size \in {WordBytes, WordBytes \div 2} :
            CallParseArray(isDynamic, slotOffset, slot, hi, n, mid, size)

SpecParse == InitReady /\ [][NextParse]_vars

\* PullTransactions on blocks of up to MaxTxs transactions, the upstream answering
\* each hash with a block number and an input text of any shape.
TxHashes == {"x1", "x2"}
TxLists == {l \in SeqsUpTo(TxHashes, MaxTxs) : Distinct(l)}
Answers ==
    {[number |-> n, input |-> i] :
        n \in {[prefix |-> TRUE, digits |-> <<"1">>],
               [prefix |-> TRUE, digits |-> <<"1", "0">>],
               [prefix |-> TRUE, digits |-> <<"g">>]},
        i \in {[prefix |-> TRUE, digits |-> <<"f", "f">>],
               [prefix |-> TRUE, digits |-> <<"1">>]}}

NextPull ==
    \E number \in {1, 16}, txs \in TxLists, upstream \in [TxHashes -> Answers],
       failing \in 0..MaxTxs :
        PullTransactions(number, txs, upstream, failing)

SpecPull == InitReady /\ [][NextPull]_vars

\* Registration and deletion of an address around the indexing of its storage
\* and events.
DataFaults == {NoFault, [at |-> "item"], [at |-> "index"]}

NextData ==
    \/ \E l \in AddrLists(OneAddr) : \E f \in AddFaults(l) : AddAddresses(l, f)
    \/ \E a \in OneAddr, f \in IndexFaults : DeleteAddress(a, f)
    \/ \E a \in OneAddr, n \in IndexedNums, root \in StorageRoots, f \in DataFaults :
            IndexStorage(a, n, root, f)
    \/ \E a \in OneAddr, n \in IndexedNums, f \in {NoFault, [at |-> "item"]} :
            createEvents(a, n, f)

SpecData == InitReady /\ [][NextData]_vars

\* The block writes and the address operations of the document-index backend
\* together, every request reaching the store.
NextDB ==
    \/ \E b \in BlockNums : WriteBlock(b, NoFault)
    \/ \E batch \in Batches : WriteBlocks(batch, NoFault)
    \/ AddressNext(OneAddr)

SpecDB == Init /\ [][NextDB]_vars

\* The S6 scenario writes blocks one at a time, up to the largest of its order.
S6Blocks == 0..Max(Range(S6Order))

NextS6 ==
    \/ \E catFails, created, sentinelOk \in BOOLEAN : New(catFails, created, sentinelOk)
    \/ \E b \in S6Blocks, f \in RequestFaultsUpTo(Max(S6Blocks)) : WriteBlock(b, f)

SpecS6 == Init /\ [][NextS6]_vars

\* ------------------------------------------------------------- claims
AllPresent(lo, hi) == \A n \in lo..hi : ReadBlock(blocks, n)

\* C1: every block number n with 1 <= n <= lastPersisted is stored; the watermark
\* never covers a missing block, whatever WriteBlock and WriteBlocks calls were made.
C1_WatermarkCoversNoGap == AllPresent(1, LastPersisted)

\* A bulk write of two blocks or more has advanced the watermark, and a block
\* stored above it is not covered because the one below it is missing.
C1_Witness ==
    /\ lastOp.op = "WriteBlocks" /\ lastOp.err = Nil
    /\ Cardinality(lastOp.args[1]) >= 2
    /\ LastPersisted > lastOp.pre.lp
    /\ \E n \in blocks : n > LastPersisted + 1

\* C2: lastPersisted never decreases: each value GetLastPersistedBlockNumber()
\* returns is >= the value it returned before the step, for WriteBlock, WriteBlocks
\* and New/init alike.
C2_WatermarkMonotonic ==
    [][GetLastPersistedBlockNumber(meta').val >= GetLastPersistedBlockNumber(meta).val]_vars

\* New has run init() against a store whose watermark was already above 0.
C2_Witness ==
    /\ lastOp.op = "New" /\ lastOp.args = <<"init">> /\ lastOp.err = Nil
    /\ lastOp.pre.lp >= 1 /\ LastPersisted >= 1

WriteBlockReturnedNil == lastOp.op = "WriteBlock" /\ lastOp.err = Nil

IsPrefix(s, t) == Len(s) <= Len(t) /\ s = SubSeq(t, 1, Len(s))

\* C4 as stated: writing 3, 1, 2, 5, 4 into an empty store, the watermark read after
\* each write is 0, 0, 3, 3, 5.
C4_Original == s6Obs.on => IsPrefix(s6Obs.seen, <<0, 0, 3, 3, 5>>)

\* C4 amended: writing 3, 1, 2, 5, 4 into an empty store, the watermark read after
\* each write is 0, 1, 3, 3, 5: the write of block 1 advances it to 1.
C4_S6Watermarks == s6Obs.on => IsPrefix(s6Obs.seen, <<0, 1, 3, 3, 5>>)

\* All five writes of the scenario have been made.
C4_Witness == s6Obs.on /\ Len(s6Obs.seen) = Len(S6Order)


Registered(address) == address \in DOMAIN contracts

\* C5 as stated: for every registered contract address A, lastFiltered(A) <=
\* lastPersisted in every reachable state.
C5_Original ==
    GetLastPersistedBlockNumber(meta).err = Nil =>
        \A a \in DOMAIN contracts : GetLastFiltered(contracts, a).val <= LastPersisted

IndexBlocksReturnedNil == lastOp.op = "IndexBlocks" /\ lastOp.err = Nil

\* C6 as stated: once IndexBlocks([A], [b]) has returned without error for a
\* registered address A, the very next GetLastFiltered(A) returns a value >= b.number.
C6_Original ==
    (IndexBlocksReturnedNil /\ lastOp.args[2] = lastOp.args[3]) =>
        \A a \in Range(lastOp.args[1]) :
            Registered(a) => GetLastFiltered(contracts, a).val >= lastOp.args[2]

\* The updates an IndexBlocks call queued have all been sent by the bulk indexer.
CallApplied ==
    /\ lastOp.op = "Flush" /\ lastOp.args # <<>>
    /\ \A a \in Range(lastOp.args[1]) :
           [id |-> a, lastFiltered |-> lastOp.args[2]] \notin pending

\* C7 as stated: IndexBlocks(addrs, blocks) that returns without error sets
\* lastFiltered of every address in addrs to the maximum block number occurring in
\* blocks, for every ordering of the list (read here once the updates are applied).
C7_Original ==
    CallApplied =>
        \A a \in Range(lastOp.args[1]) :
            Registered(a) => GetLastFiltered(contracts, a).val = lastOp.args[3]

\* C8 as stated: for every address A, lastFiltered(A) never decreases while A stays
\* registered, whatever IndexBlocks calls are made (a value that AddAddressFrom
\* wrapped around is left aside).
C8_Original ==
    [][\A a \in DOMAIN contracts \cap DOMAIN contracts' :
           contracts[a].lastFiltered # MaxUint
               => contracts'[a].lastFiltered >= contracts[a].lastFiltered]_vars

\* C9: DeleteAddress(A) followed by AddAddresses([A]) leaves GetLastFiltered(A) at 0
\* in the document-index backend, and at the value it had before the deletion in the
\* in-memory backend, which keeps the index history.
C9_ReAddAfterDelete ==
    /\ (lastOp.op = "AddAddresses" /\ lastOp.err = Nil /\ Len(lastOp.args) = 1
            /\ lastOp.pre.afterDelete)
         => GetLastFiltered(contracts, lastOp.args[1]) = [val |-> 0, err |-> Nil]
    /\ (lastOp.op = "MemAddAddresses" /\ lastOp.err = Nil /\ Len(lastOp.args) = 1
            /\ lastOp.pre.afterDelete)
         => MemGetLastFiltered(mem, lastOp.args[1]) = lastOp.pre.prior

\* An address whose lastFiltered was above 0 has been deleted and added again in the
\* document-index backend.
C9_Witness ==
    /\ lastOp.op = "AddAddresses" /\ lastOp.err = Nil /\ Len(lastOp.args) = 1
    /\ lastOp.pre.afterDelete /\ lastOp.pre.prior > 0

\* The same in the in-memory backend: the prior value, above 0, is back.
C9_WitnessMem ==
    /\ lastOp.op = "MemAddAddresses" /\ Len(lastOp.args) = 1
    /\ lastOp.pre.afterDelete /\ lastOp.pre.prior > 0
    /\ MemGetLastFiltered(mem, lastOp.args[1]) > 0

DeletedWithProgress ==
    /\ lastOp.op = "DeleteAddress" /\ lastOp.err = Nil
    /\ lastOp.pre.lf.err = Nil /\ lastOp.pre.lf.val > 0

\* C10 as stated: after DeleteAddress(A) of a registered address whose lastFiltered
\* was n > 0 (a block number, not a wrapped value), GetLastFiltered(A) returns 0
\* without an error.
C10_Original ==
    (DeletedWithProgress /\ lastOp.pre.lf.val # MaxUint) =>
        GetLastFiltered(contracts, lastOp.args[1]) = [val |-> 0, err |-> Nil]

\* What GetLastFiltered(A) returns instead after such a deletion: the value 0
\* together with the not-found error of the missing Contract document.
DeletedReadsZeroNotFound ==
    DeletedWithProgress =>
        GetLastFiltered(contracts, lastOp.args[1]) = [val |-> 0, err |-> ErrNotFound]

\* C11: AddAddresses called with an already-registered address A, alone or inside
\* a batch, leaves A's document (templateName, creationTx, lastFiltered) exactly as
\* it was, and GetAddresses() contains A exactly once.
C11_AddAddressesIdempotent ==
    [][lastOp'.op = "AddAddresses" =>
          \A a \in Range(lastOp'.args) \cap DOMAIN contracts :
              /\ a \in DOMAIN contracts' /\ contracts'[a] = contracts[a]
              /\ a \in DOMAIN GetAddresses(contracts')
              /\ GetAddresses(contracts')[a] = 1]_vars

\* A batch of two different addresses has been added of which one was registered
\* already, with a template assigned and lastFiltered above 0.
C11_Witness ==
    /\ lastOp.op = "AddAddresses" /\ Len(lastOp.args) = 2
    /\ lastOp.args[1] # lastOp.args[2] /\ lastOp.err = ErrConflict
    /\ \E a \in Range(lastOp.args) :
           /\ a \in DOMAIN contracts
           /\ contracts[a].templateName \in Templates
           /\ contracts[a].lastFiltered > 0

\* C12 as stated: AddAddressFrom(A, from) on an unregistered address makes
\* lastFiltered(A) = from - 1 for from >= 1 and 0 for from = 0; AddAddresses stores
\* 0; AddAddressFrom on a registered address leaves its lastFiltered unchanged.
C12_Original ==
    [][/\ (lastOp'.op = "AddAddressFrom" /\ lastOp'.err = Nil) =>
            LET a == lastOp'.args[1]
                from == lastOp'.args[2]
            IN  GetLastFiltered(contracts', a).val = IF from = 0 THEN 0 ELSE from - 1
        /\ (lastOp'.op = "AddAddresses" /\ lastOp'.err = Nil) =>
            \A b \in Range(lastOp'.args) : GetLastFiltered(contracts', b).val = 0
        /\ lastOp'.op = "AddAddressFrom" =>
            (Registered(lastOp'.args[1]) =>
                GetLastFiltered(contracts', lastOp'.args[1])
                    = GetLastFiltered(contracts, lastOp'.args[1]))]_vars

TokenDocs == {tokens[id] : id \in DOMAIN tokens}
Overlap(d, e) ==
    /\ (d.heldUntil = NullUntil \/ e.heldFrom <= d.heldUntil)
    /\ (e.heldUntil = NullUntil \/ d.heldFrom <= e.heldUntil)

\* C13 as stated: after any sequence of RecordERC721Token calls, block numbers in
\* any order, the records of a token have pairwise disjoint [heldFrom, heldUntil]
\* intervals, at most one has heldUntil = null, and together they cover every block
\* from the first recorded one on.
C13_Original ==
    /\ \A d, e \in TokenDocs : d # e => ~Overlap(d, e)
    /\ Cardinality({d \in TokenDocs : d.heldUntil = NullUntil}) <= 1
    /\ \A d \in TokenDocs : \A b \in d.heldFrom..(MaxHeld + 1) :
           \E e \in TokenDocs : Holds(e, b)

\* A token held since block m, its records forming a history, has been recorded
\* for a holder at a block n > m, and the call returned nil.
Transferred ==
    /\ lastOp.op = "RecordERC721Token" /\ lastOp.err = Nil
    /\ lastOp.pre.valid /\ lastOp.args[2] > lastOp.pre.m

\* C14: when a token currently held since block m is recorded for a new holder at
\* block n > m, the prior record is closed to heldUntil = n - 1 and a new record
\* with heldFrom = n and heldUntil = null is stored; afterwards ERC721TokenByTokenID
\* returns the prior holder's record for every block in [m, n-1] and the new
\* holder's record for every block >= n.
C14_TransferClosesPrior ==
    Transferred =>
        LET m == lastOp.pre.m
            n == lastOp.args[2]
            prior == [holder |-> lastOp.pre.holder, heldFrom |-> m, heldUntil |-> n - 1]
            new == ERC721Token(lastOp.args[1], n)
        IN  /\ m \in DOMAIN tokens /\ tokens[m] = prior
            /\ n \in DOMAIN tokens /\ tokens[n] = new
            /\ \A b \in m..(n - 1) :
                   ERC721TokenByTokenID(tokens, b, FALSE) = {[doc |-> prior, err |-> Nil]}
            /\ \A b \in n..(MaxHeld + 1) :
                   ERC721TokenByTokenID(tokens, b, FALSE) = {[doc |-> new, err |-> Nil]}

\* The third holder of a token has been recorded (a mint and two transfers, as in
\* scenario S5), each to a holder other than the one before.
C14_Witness ==
    /\ Transferred /\ Cardinality(DOMAIN tokens) = 3
    /\ lastOp.args[1] # lastOp.pre.holder
    /\ lastOp.pre.m - 1 \in DOMAIN tokens
    /\ tokens[lastOp.pre.m - 1].heldUntil = lastOp.pre.m - 1

\* C15 as stated: each paginated search returns PaginationLimitExceeded exactly
\* when pageSize * pageNumber + pageSize > 1000, and in that case issues no search
\* request.
C15_Original ==
    lastOp.op \in Searches =>
        LET exceeded == lastOp.args[1] * lastOp.args[2] + lastOp.args[1] > PaginationLimit
        IN  /\ (lastOp.err = ErrPaginationLimitExceeded) <=> exceeded
            /\ exceeded => ~lastOp.pre.sent

\* C16 as stated: from every supervisor state, set-up failing and being retried
\* included, a stop event leads to Stopped (run() returns), and by then the
\* chain-head listener has exited and the backfill task has finished.
C16_Original ==
    /\ [](mon.pc = "stopped" => ~mon.listener /\ mon.backfill.state = "none")
    /\ (mon.stop = "sent") ~> (SupervisorState(mon) = "Stopped")

\* The subscription is up and the backfill was set up: neither a stop nor a
\* subscription error has ended this iteration.
Subscribed ==
    /\ mon.pc = "select" /\ mon.listener /\ ~mon.chStop /\ ~mon.cancel

\* C17: once the chain-head subscription has succeeded after N failures, every
\* block number in [lastPersisted+1, currentHead] and every block announced after
\* the subscription is enqueued, or is still on its way to the queue (a header not
\* yet processed, a block the backfill has not reached): none is skipped, and all
\* of them get enqueued unless a stop or a subscription error ends the iteration.
C17_NoBlockSkipped ==
    /\ [](Subscribed =>
            \A b \in (mon.read.lastPersisted + 1)..mon.head :
                \/ b \in mon.enq
                \/ b \in mon.inflight
                \/ /\ mon.backfill.state = "running"
                   /\ mon.backfill.next <= b /\ b <= mon.backfill.to)
    /\ \A b \in 1..MaxHead :
           (Subscribed /\ mon.read.lastPersisted < b /\ b <= mon.head)
               ~> (b \in mon.enq \/ mon.chStop \/ mon.cancel)

\* After failed subscriptions and a reconnect, the whole chain has been enqueued:
\* a block by the backfill and, above its range, a block by the listener.
C17_Witness ==
    /\ Subscribed /\ mon.fails > 0 /\ mon.head = MaxHead
    /\ mon.read.lastPersisted < mon.read.currentBlockNumber
    /\ mon.read.currentBlockNumber < mon.head
    /\ \A b \in (mon.read.lastPersisted + 1)..mon.head : b \in mon.enq

\* The backfill goroutines that are running.
RunningBackfills ==
    mon.orphans + (IF mon.backfill.state = "running" THEN 1 ELSE 0)

\* C18: at most one backfill task runs at any time: after cancelChan closes
\* without a stop event, the supervisor starts the next iteration only once the
\* backfill in flight has finished.
C18_OneBackfill ==
    /\ RunningBackfills <= 1
    /\ mon.pc \in {"loop", "sync", "sleep"} => RunningBackfills = 0

\* cancelChan closed with no stop event while the backfill was half-way through
\* its range: the supervisor is in wg.Wait().
C18_Witness ==
    /\ mon.pc = "cancelWaitGroup" /\ mon.stop = "no"
    /\ mon.backfill.state = "running"
    /\ mon.backfill.next > mon.read.lastPersisted + 1
    /\ mon.backfill.next <= mon.backfill.to

\* C19 as stated: for every hex-encoded field of the GraphQL response and of the
\* call trace, a value that fails to decode makes createTransaction return an
\* error and no Transaction; enrichment never crashes.
C19_Original ==
    lastOp.op = "createTransaction" =>
        LET field == CHOOSE f \in {HexFields[i] : i \in DOMAIN HexFields} :
                         f.name = lastOp.args[1]
        IN  /\ lastOp.pre.outcome # "panic"
            /\ ~FieldDecodes(field, lastOp.args[2]) =>
                   lastOp.pre.outcome = "error" /\ lastOp.err # Nil

\* C20 as stated: after DeleteAddress(A), the reads for A (GetAllEventsFromAddress,
\* GetStorage) return an empty result, whatever was indexed for A before.
C20_Original ==
    (lastOp.op = "DeleteAddress" /\ lastOp.err = Nil) =>
        /\ GetAllEventsFromAddress(data, lastOp.args[1]) = {}
        /\ \A n \in IndexedNums : GetStorage(data, lastOp.args[1], n) = {}

\* C21 as stated: storage parsing never crashes; a static-array type name whose
\* size suffix cannot be located or parsed, a layout entry with offset +
\* numberOfBytes > 32, and a storage word shorter than 32 bytes each yield a
\* returned error.
C21_Original ==
    /\ lastOp.op \in {"determineSize", "ExtractFromSingleStorage"} =>
           lastOp.pre.outcome # "panic"
    /\ (lastOp.op = "determineSize" /\ ~lastOp.args[2]) =>
           LET name == lastOp.args[1]
               suffix == Slice(name, LastIndex(name, ")") + 1, LastIndex(name, "_"))
           IN  (suffix.panic \/ strconvParseUint(suffix.val).outcome # "ok") =>
                   lastOp.pre.outcome = "error"

\* The integer a word holds equals n.
WordHolds(word, n) ==
    Len(ParserParseUint(word)) <= 3 /\ BytesValue(ParserParseUint(word)) = n

\* Element j (from 0) of the array of a snapshot made by ArrayStorage: elements of
\* size bytes, packed from the low-order end of the data words from base on.
ArrayElement(storage, base, size, j) ==
    LET k == WordBytes \div size
        word == storage[base + j \div k]
        upper == WordBytes - (j % k) * size
    IN  ParserParseUint(SubSeq(word, upper - size + 1, upper))

\* C22 as stated: for a dynamic array ParseArray reads the length L as the unsigned
\* integer in the whole word at the resolved slot and returns exactly L elements in
\* index order read from the hash of the resolved slot; for a static array it
\* returns the elements from the resolved slot on and reads no length word.
C22_Original ==
    lastOp.op = "ParseArray" =>
        LET isDynamic == lastOp.args[1]
            resolved == ResolveSlot(lastOp.args[2], lastOp.args[3])
            lengthWord == Word(lastOp.args[4], 0, lastOp.args[5])
            storage == ArrayStorage(isDynamic, resolved, lengthWord, lastOp.args[6])
            base == IF isDynamic THEN hash(resolved) ELSE resolved
            out == lastOp.pre
        IN  /\ out.outcome = "ok"
            /\ isDynamic => WordHolds(lengthWord, Len(out.val))
            /\ ~isDynamic => Len(out.val) = lastOp.args[5]
            /\ \A i \in DOMAIN out.val :
                   out.val[i] = ArrayElement(storage, base, lastOp.args[7], i - 1)

\* The same for a length word that holds less than 2^64.
ParseArrayOfLength ==
    (lastOp.op = "ParseArray" /\ lastOp.args[4] = 0) => C22_Original

\* C23: for a 32-byte word W and offset + numberOfBytes <= 32,
\* ExtractFromSingleStorage returns exactly the numberOfBytes bytes
\* W[32 - offset - numberOfBytes .. 32 - offset): offset 0 addresses the low-order
\* bytes, and fields packed at non-overlapping (offset, size) come from disjoint
\* byte ranges.
C23_ExtractRightAligned ==
    (/\ lastOp.op = "ExtractFromSingleStorage"
     /\ Len(lastOp.args[3]) = WordBytes
     /\ lastOp.args[1] + lastOp.args[2] <= WordBytes) =>
        LET offset == lastOp.args[1]
            numberOfBytes == lastOp.args[2]
            W == lastOp.args[3]
        IN  /\ lastOp.pre.outcome = "ok"
            /\ Len(lastOp.pre.val) = numberOfBytes
            /\ \A j \in 1..numberOfBytes :
                   lastOp.pre.val[j] = W[WordBytes - offset - numberOfBytes + j]

\* The field b (uint128 at offset 16) of the word 0x..0001 || ..0002 has been read
\* as 1; the field a at offset 0 of the same word reads as 2.
C23_Witness ==
    /\ lastOp.op = "ExtractFromSingleStorage"
    /\ lastOp.args = <<WordBytes \div 2, WordBytes \div 2, Word(0, 1, 2)>>
    /\ ParserParseUint(lastOp.pre.val) = <<1>>
    /\ ParserParseUint(ExtractFromSingleStorage(0, WordBytes \div 2, Word(0, 1, 2)).val)
           = <<2>>

\* C26: createArrayStorageDocument(N, size, base) produces exactly N entries in index
\* order; for 1 <= size <= 32 with k = 32 \div size, entry i has slot i \div k and
\* offset (i mod k) * size; for size > 32, entry i has offset 0 and slot
\* i * ceil(size / 32); so no element straddles a slot boundary and no two elements
\* overlap.
C26_PackedEntries ==
    (lastOp.op = "createArrayStorageDocument" /\ lastOp.args[2] >= 1) =>
        LET N == lastOp.args[1]
            size == lastOp.args[2]
            doc == lastOp.pre.val
            k == WordBytes \div size
            slots == (size + WordBytes - 1) \div WordBytes
            First(i) == WordBytes * doc[i].slot + doc[i].offset
        IN  /\ Len(doc) = N
            /\ size <= WordBytes =>
                   \A i \in 1..N : /\ doc[i].slot = (i - 1) \div k
                                    /\ doc[i].offset = ((i - 1) % k) * size
                                    /\ doc[i].offset + size <= WordBytes
            /\ size > WordBytes =>
                   \A i \in 1..N : doc[i].offset = 0 /\ doc[i].slot = (i - 1) * slots
            /\ \A i, j \in 1..N : i < j => First(i) + size <= First(j)

\* Three elements of 16 bytes have been laid out, the third opening the next slot;
\* and elements of 33 bytes, each taking two slots.
C26_Witness ==
    /\ lastOp.op = "createArrayStorageDocument"
    /\ \/ /\ lastOp.args = <<3, WordBytes \div 2>>
          /\ lastOp.pre.val[3] = [offset |-> 0, slot |-> 1]
       \/ /\ lastOp.args = <<3, WordBytes + 1>>
          /\ lastOp.pre.val[3] = [offset |-> 0, slot |-> 4]

\* C24 as stated: New fails with an error whenever an index or the
\* Meta/lastPersisted sentinel cannot be created during initialisation; it returns
\* a database only when the backend is fully initialised.
C24_Original ==
    (lastOp.op = "New" /\ lastOp.args = <<"init">> /\ lastOp.err = Nil) =>
        ~missingIndex /\ GetLastPersistedBlockNumber(meta).err = Nil

\* C25 as stated: PullTransactions(block) returns nil only after a Transaction row
\* has been written for every hash of the block, each with blockNumber equal to
\* block.Number; the hashes are processed in block order, and an error is returned
\* at the first hash whose enrichment or write fails.
C25_Original ==
    lastOp.op = "PullTransactions" =>
        LET number == lastOp.args[1]
            txs == lastOp.args[2]
        IN  /\ lastOp.pre.outcome = "nil" =>
                   \A i \in DOMAIN txs :
                       /\ txs[i] \in DOMAIN data.transactions
                       /\ data.transactions[txs[i]].blockNumber = number
            /\ lastOp.pre.outcome = "error" =>
                   /\ lastOp.err # Nil
                   /\ \A i \in 1..lastOp.pre.done : txs[i] \in DOMAIN data.transactions

\* The same, each row carrying the block number of the upstream response.
PullTransactionsWritesRows ==
    (lastOp.op = "PullTransactions" /\ lastOp.pre.outcome = "nil") =>
        \A i \in DOMAIN lastOp.args[2] : lastOp.args[2][i] \in DOMAIN data.transactions

\* C27 as stated, for the lastFiltered update done by IndexBlocks: the call returns
\* only after each item of the batch has reported success or failure.
C27_Original ==
    IndexBlocksReturnedNil =>
        \A a \in Range(lastOp.args[1]) :
            [id |-> a, lastFiltered |-> lastOp.args[2]] \notin pending

\* A failed write to an initialised store, made when the watermark was the
\* gap-free prefix.
WriteFailed ==
    /\ lastOp.op \in {"WriteBlock", "WriteBlocks"}
    /\ lastOp.err # Nil /\ lastOp.pre.tight
    /\ ~missingIndex /\ GetLastPersistedBlockNumber(meta).err = Nil

\* The blocks of the last write as a list, lowest first.
RECURSIVE Ascending(_)
Ascending(S) == IF S = {} THEN <<>> ELSE <<Min(S)>> \o Ascending(S \ {Min(S)})

\* The store after the blocks of the last write are submitted again by the same
\* operation, every request reaching the store.
Resubmitted(stored, m) ==
    IF lastOp.op = "WriteBlock" THEN WriteBlockResult(stored, m, lastOp.args[1], NoFault)
    ELSE WriteBlocksResult(stored, m, Ascending(lastOp.args[1]), NoFault)

\* C28 as stated: a WriteBlock or WriteBlocks call that returns an error leaves
\* lastPersisted unchanged, and once the same blocks have been submitted again
\* (here: twice more, without a fault) lastPersisted equals the largest n such
\* that blocks 1..n are all stored.
C28_Original ==
    WriteFailed =>
        /\ LastPersisted = lastOp.pre.lp
        /\ LET once == Resubmitted(blocks, meta)
               twice == Resubmitted(once.blocks, once.meta)
           IN  Tight(twice.blocks, twice.meta)

\* The first half of C28 on its own: a write that returns an error leaves
\* lastPersisted unchanged.
FailedWriteKeepsWatermark ==
    (lastOp.op \in {"WriteBlock", "WriteBlocks"} /\ lastOp.err # Nil) =>
        LastPersisted = lastOp.pre.lp

\* A write to an initialised store that returned nil: its blocks are stored.
WriteSucceeded ==
    /\ lastOp.op \in {"WriteBlock", "WriteBlocks"}
    /\ lastOp.err = Nil
    /\ ~missingIndex /\ GetLastPersistedBlockNumber(meta).err = Nil

\* C30 as stated: replaying a write is idempotent: writing a block (WriteBlock)
\* or a batch (WriteBlocks) that is already stored succeeds and leaves the set of
\* stored blocks and lastPersisted exactly as they were after the first write.
C30_Original ==
    WriteSucceeded =>
        LET replay == Resubmitted(blocks, meta)
        IN  /\ replay.err = Nil
            /\ replay.blocks = blocks
            /\ replay.meta = meta

\* What does hold of a replay: it never changes the stored blocks or
\* lastPersisted, and the replay of a single block succeeds.
ReplayKeepsStore ==
    WriteSucceeded =>
        LET replay == Resubmitted(blocks, meta)
        IN  /\ replay.blocks = blocks
            /\ replay.meta = meta
            /\ lastOp.op = "WriteBlock" => replay.err = Nil

\* No WriteBlock call is in flight.
AllReturned == \A c \in Calls : calls[c].pc \in {"idle", "returned"}

\* C29 as stated: when two or more WriteBlock calls (for different blocks or for
\* the same block) run concurrently, each single-document read and write being
\* atomic, lastPersisted never decreases and, once all calls have returned, equals
\* the largest n such that blocks 1..n are all stored.
C29_Original ==
    /\ [][LastPersisted' >= LastPersisted]_vars
    /\ [](AllReturned => Tight(blocks, meta))

\* The two halves of C29, each on its own.
RaceNeverDecreases == [][LastPersisted' >= LastPersisted]_vars
RaceEndsTight == AllReturned => Tight(blocks, meta)

\* Every long-lived goroutine has returned and so has Stop().
AllStopped ==
    /\ svc.stop = "returned"
    /\ mon.pc = "stopped"
    /\ \A t \in Tasks \ {Supervisor} : svc.task[t] = "returned"

\* C31 as stated: a single Stop() issued at any moment after Start() has returned is
\* received by every long-lived task (the workers, the BatchWriter and the
\* supervisor), so each of them terminates and Stop() itself returns; no task
\* misses the stop event because it had not yet subscribed to the stop feed.
C31_Original == (svc.stop = "sending") ~> AllStopped

\* What does hold: the workers and the BatchWriter that had subscribed when Stop()
\* was called do return.
SubscribedTasksStop ==
    \A t \in Tasks \ {Supervisor} : (t \in svc.to) ~> (svc.task[t] = "returned")

\* The goroutines Start() has created, by kind.
Created(kind) == {t \in kind : svc.task[t] # "none"}

\* C32 as stated: after one Start(), across any number of reconnect iterations
\* there is exactly one BatchWriter task, exactly totalWorkers worker tasks and one
\* supervisor, and at most one chain-head listener task is alive at any time: a new
\* listener is created only after the previous iteration's listener has exited.
C32_Original ==
    svc.started =>
        /\ Cardinality(Created({Writer})) = 1
        /\ Cardinality(Created(Workers)) = totalWorkers
        /\ Cardinality(Created({Supervisor})) = 1
        /\ Listeners(mon) <= 1

\* What does hold: the reconnect loop creates no worker, BatchWriter or supervisor.
PoolsFixed ==
    svc.started =>
        /\ Cardinality(Created({Writer})) = 1
        /\ Cardinality(Created(Workers)) = totalWorkers
        /\ Cardinality(Created({Supervisor})) = 1

\* The backfill went through its range to the end.
BackfillComplete ==
    mon.backfill.state = "done" /\ mon.backfill.next > mon.backfill.to

\* C33: when syncBlocks(from, to) fails, the backfill task retries from the block
\* number carried by the error, and over any sequence of failures followed by
\* success every block number in [from, to] is enqueued at least once; once
\* cancelChan is closed the backfill task terminates instead of retrying for ever.
C33_BackfillRetries ==
    /\ [](BackfillComplete =>
            \A b \in (mon.read.lastPersisted + 1)..mon.read.currentBlockNumber :
                b \in mon.enq)
    /\ (mon.backfill.state = "running" /\ mon.cancel) ~> (mon.backfill.state # "running")

\* syncBlocks failed MaxRetries times, and the backfill still enqueued its whole
\* range of two blocks.
C33_Witness ==
    /\ BackfillComplete /\ mon.retries = MaxRetries
    /\ mon.read.lastPersisted + 1 < mon.read.currentBlockNumber
    /\ \A b \in (mon.read.lastPersisted + 1)..mon.read.currentBlockNumber : b \in mon.enq

\* The open records (heldUntil = null) of a Token index.
OpenRecords(index) == {id \in DOMAIN index : index[id].heldUntil = NullUntil}

\* C34 as stated: if RecordERC721Token returns an error, the stored records of
\* that (contract, tokenId) are the same as before the call; in particular a
\* failed call never leaves a new open record (heldUntil = null) stored while the
\* previous holder's record is still open.
C34_Original ==
    [][(lastOp'.op = "RecordERC721Token" /\ lastOp'.err # Nil) =>
          /\ tokens' = tokens
          /\ OpenRecords(tokens') \subseteq OpenRecords(tokens)]_vars

\* What does hold: a call that fails before or at its create request (the search
\* fails, the create is lost or rejected) stores nothing.
FailedCreateStoresNothing ==
    [][(lastOp'.op = "RecordERC721Token" /\ lastOp'.err # Nil
            /\ DOMAIN tokens' = DOMAIN tokens) => tokens' = tokens]_vars

\* C35 as stated: IndexStorage for an account whose storageRoot is already stored
\* (unchanged storage at a later block) succeeds, keeps a single entry set for
\* that root, and afterwards GetStorage(address, block) returns the same
\* slot-to-value map for every (address, block) that was indexed with that root;
\* GetStorage of a never-indexed (address, block) returns an empty result.
C35_Original ==
    /\ (lastOp.op = "IndexStorage" /\ lastOp.pre.clean
            /\ lastOp.pre.stored /\ ~lastOp.pre.indexed) =>
           /\ lastOp.err = Nil
           /\ GetStorage(data, lastOp.args[1], lastOp.args[2]) = StorageMap(lastOp.args[3])
    /\ \A id \in DOMAIN data.state :
           data.state[id].storageRoot \in DOMAIN data.storage =>
               GetStorage(data, id[1], id[2]) = StorageMap(data.state[id].storageRoot)
    /\ \A a \in Addrs, n \in 1..MaxIndexed :
           <<a, n>> \notin DOMAIN data.state => GetStorage(data, a, n) = {}

\* What does hold: the stored root keeps its one entry set, every (address,
\* block) indexed with it reads that map, and a never-indexed one reads empty.
StorageDeduplicated ==
    /\ (lastOp.op = "IndexStorage" /\ lastOp.pre.clean
            /\ lastOp.pre.stored /\ ~lastOp.pre.indexed) =>
           GetStorage(data, lastOp.args[1], lastOp.args[2]) = StorageMap(lastOp.args[3])
    /\ \A id \in DOMAIN data.state :
           data.state[id].storageRoot \in DOMAIN data.storage =>
               GetStorage(data, id[1], id[2]) = StorageMap(data.state[id].storageRoot)
    /\ \A a \in Addrs, n \in 1..MaxIndexed :
           <<a, n>> \notin DOMAIN data.state => GetStorage(data, a, n) = {}

\* C36: the five-segment sort key computed by RecordERC721Token preserves numeric
\* order: for all token ids 0 <= a < b < 2^256 the tuple of a is lexicographically
\* smaller than that of b, every segment fits in an unsigned 64-bit integer, and
\* distinct token ids get distinct tuples.
C36_SortKeyOrdered ==
    lastOp.op = "SortKey" =>
        LET a == lastOp.args[1]
            key == lastOp.pre.key
        IN  /\ \A i \in 1..Segments : ~NumLess(MaxUint64, key[i])
            /\ \A i \in 1..Segments : Len(key[i]) <= SegmentDigits
            /\ \A b \in TokenIds :
                   /\ NumLess(a, b) => KeyLess(key, SortKey(b))
                   /\ a # b => key # SortKey(b)

\* The key of 2^256 - 1, the largest token id, was computed: its first piece is
\* the seven zeros of the padding and the first ten digits.
C36_Witness ==
    /\ lastOp.op = "SortKey" /\ lastOp.args[1] = MaxTokenId
    /\ lastOp.pre.key[1] = SubSeq(MaxTokenId, 1, 10)
    /\ lastOp.pre.key[5] = SubSeq(MaxTokenId, 62, 78)

\* C37: whenever createTransaction returns a transaction, every call of the trace
\* that carries no value has Value = 0 in its InternalCall, whatever the value of
\* the transaction and of the calls before it, every call that carries one has
\* that value, and the Value of the transaction is the decoded value of the
\* response, unchanged by the loop over the calls.
C37_MissingValueIsZero ==
    (lastOp.op = "traceTransaction" /\ lastOp.pre.outcome = "transaction") =>
        LET respCalls == lastOp.args[2]
            tx == lastOp.pre.tx
        IN  /\ Len(tx.InternalCalls) = Len(respCalls)
            /\ \A i \in DOMAIN respCalls :
                   tx.InternalCalls[i].Value =
                       IF respCalls[i].value.present
                       THEN DecodeUint64(respCalls[i].value.text).val
                       ELSE 0
            /\ tx.Value = DecodeUint64(lastOp.args[1]).val

\* C37 witness: a transaction of value 15 whose trace has a call of value 1
\* followed by a call without a value was enriched.
C37_Witness ==
    /\ lastOp.op = "traceTransaction"
    /\ lastOp.pre.outcome = "transaction"
    /\ lastOp.pre.tx.Value = 15
    /\ Len(lastOp.args[2]) = 2
    /\ lastOp.args[2][1].value.present
    /\ lastOp.pre.tx.InternalCalls[1].Value = 1
    /\ ~lastOp.args[2][2].value.present
    /\ lastOp.pre.tx.InternalCalls[2].Value = 0

====
